---- MODULE Spec2Model ----
(***************************************************************************)
(* Verification model of the Databricks tech adapter                       *)
(* (agile-lab-dev/witboost-databricks-python-tech-adapter).                *)
(*                                                                         *)
(* Three state machines share this module:                                 *)
(*   Spec / SpecLive   : the task orchestrator (ProvisionService and       *)
(*                       MemoryTaskRepository) and its clients;            *)
(*   SpecWs            : the per-kind resource handlers and managers       *)
(*                       working against one Databricks workspace;         *)
(*   SpecMap           : the identity mappers.                             *)
(* Each specification leaves the variables of the others untouched.        *)
(***************************************************************************)
EXTENDS Integers, Sequences, FiniteSets, TLC

-----------------------------------------------------------------------------
(* Bounds of the model *)

\* tasks submitted in one run of the orchestrator
MaxTasks == 1
\* executions of tasks followed from start to end
MaxExecutions == 1
\* threads that call the task repository, and the calls they make in all
MaxThreads == 2
MaxCalls == 3
\* provisions of workloads in flight together
MaxProvisions == 2
\* length of an exception chain (the exception and its __context__ links)
MaxChain == 3
\* SQL statements executed and polled by one output port provisioning
MaxStatements == 3

VARIABLES
    \* --- task orchestrator ---
    status_map,        \* MemoryTaskRepository.status_map : UUID -> ProvisioningStatus
    background_tasks,  \* BackgroundTasks: task id -> arguments of _start_provisioning
    run,               \* position of each background execution
    lro_state,         \* Azure: state of the workspace-creation long running operation
    statement_state,   \* Databricks: state of the SQL statement a task polls
    returned,          \* the value returned by the last provision / unprovision call
    poll_tick,         \* parity of the polling requests that found the operation unfinished
    obs,               \* observations on each execution (calls made, exception raised)
    last_status,       \* the last answer of get_provisioning_status
    \* --- workspace handlers and managers (SpecWs) ---
    jobs,              \* the workspace's jobs and workflows: job id -> name
    pipelines,         \* the workspace's DLT pipelines: pipeline id -> name
    repo,              \* whether the component's repository exists in the workspace
    calls,             \* the SDK calls issued by the last operation, in order
    reply,             \* the last operation: its arguments and how it ended
    \* --- identity mappers (SpecMap) ---
    account_groups,    \* Databricks account: the display names of its groups, in listing order
    tenant_groups,     \* Azure tenant: the display names of its groups; the position is the object id
    tenant_users,      \* Azure tenant: the mails of its users
    results,           \* the last map call: its mapper, its subjects and what it returned
    \* --- access control of the output port's view (SpecAcl) ---
    grants,            \* Unity Catalog: the grants on the view, on its catalog and on its schema
    acl,               \* the last update_acl call: its arguments, its SDK calls and how it ended
    \* --- workflows (SpecDrift, SpecRedeploy) ---
    workflows,         \* the workspace's jobs and workflows: job id -> definition
    compute,           \* the workspace's pipelines, warehouses, clusters and service principals
    deploy,            \* the last workflow task: its request, its SDK calls and how it ended
    \* --- the workspace of a component (SpecAz) ---
    azure,             \* Azure: the managed workspaces with their state, the roles assigned on them
    resolve,           \* the last provision task on a job: its reference, its calls, its host
    \* --- one execution of a task, from its component to its status (SpecGate) ---
    gate,              \* the last execution of _start_provisioning: arguments, calls, end
    \* --- threads in the task repository (SpecLock) ---
    threads,           \* _status_map_lock, each thread's position, and the serial table
    \* --- concurrent provisions creating repositories (SpecCreation) ---
    creation,          \* the handlers built, their locks, each provision's position
    \* --- roles and repository permissions (SpecRevoke) ---
    revoke,            \* the repository's access control list and the last change of permissions
    \* --- a workload handler's provision (SpecProvision) ---
    workload,          \* the last provision of a workload: its request, its calls, its end
    \* --- the entry point of update-acl (SpecEntry) ---
    boundary,          \* the last call of UpdateAclService.update_acl: its request, its calls, its answer
    \* --- provisions running at the same time (SpecRace) ---
    race,              \* concurrent provisions: each one's position, what it listed, how it ended
    \* --- temporary secrets of service principals ---
    secrets,           \* the secrets of the run-as service principal and the call that sets its git credentials
    \* --- a workflow task in two steps ---
    checked            \* the workflow task between its validation and its handler

orchVars == <<status_map, background_tasks, run, lro_state, statement_state,
              returned, poll_tick, obs, last_status>>
wsVars == <<jobs, pipelines, repo, calls, reply>>
mapVars == <<account_groups, tenant_groups, tenant_users, results>>
aclVars == <<grants, acl>>
wfVars == <<workflows, compute, deploy>>
azVars == <<azure, resolve>>
gateVars == <<gate>>
lockVars == <<threads>>
creationVars == <<creation>>
revokeVars == <<revoke>>
workloadVars == <<workload>>
earlierVars == <<gateVars, lockVars, creationVars, revokeVars, workloadVars>>
moreVars == <<boundary, race, secrets, checked>>
laterVars == <<earlierVars, moreVars>>
extVars == <<aclVars, wfVars, azVars, laterVars>>
\* what an execution of a task leaves alone: it writes status_map, azure and gate
orchRest == <<background_tasks, run, lro_state, statement_state, returned, poll_tick, obs,
              last_status>>
exceptGate ==
    <<orchRest, wsVars, mapVars, aclVars, wfVars, resolve, lockVars, creationVars, revokeVars,
      workloadVars, moreVars>>
vars == <<status_map, background_tasks, run, lro_state, statement_state,
          returned, poll_tick, obs, last_status, jobs, pipelines, repo, calls, reply,
          account_groups, tenant_groups, tenant_users, results,
          grants, acl, workflows, compute, deploy, azure, resolve, gate, threads, creation, revoke,
          workload,
          boundary,
          race,
          secrets,
          checked>>

-----------------------------------------------------------------------------
(* Strings are sequences of tokens; "" is the empty sequence. *)

EmptyStr == <<>>

\* the message of the exception at depth i of a chain
ErrTok == <<"e1", "e2", "e3", "e4", "e5", "e6">>

MsgAt(i) == IF i = 1 THEN {EmptyStr, <<ErrTok[1]>>} ELSE {<<ErrTok[i]>>}

\* chains <<str(e), str(e.__context__), str(e.__context__.__context__), ...>>
Chains == UNION {{c \in [1..n -> UNION {MsgAt(i) : i \in 1..n}] :
                      \A i \in 1..n : c[i] \in MsgAt(i)} : n \in 1..MaxChain}

ExcClasses == {"ProvisioningError", "DatabricksError", "Exception"}

Exceptions == [cls : ExcClasses, chain : Chains]

NoExc == [cls |-> "none", chain |-> <<>>]

\* what leaves a resource handler: each of them catches every exception and
\* raises a ProvisioningError with a message of its own from it
HandlerErrors == {e \in Exceptions : e.cls = "ProvisioningError" /\ e.chain[1] # EmptyStr}

\* models/exceptions.py: build_error_message_from_chained_exception
RECURSIVE caused_by(_)
caused_by(contexts) ==
    IF contexts = <<>> THEN <<>>
    ELSE <<"\n caused by: \"">> \o Head(contexts) \o <<"\"">> \o caused_by(Tail(contexts))

\* a variant that reports the first cause only
first_cause_only(chain) ==
    Head(chain) \o (IF Len(chain) > 1
                    THEN <<"\n caused by: \"">> \o chain[2] \o <<"\"">> ELSE <<>>)

build_error_message_from_chained_exception(chain) ==
    Head(chain) \o caused_by(Tail(chain))

-----------------------------------------------------------------------------
(* MemoryTaskRepository *)

Terminal == {"COMPLETED", "FAILED"}

\* uuid.uuid4(): a fresh identifier; identifiers are numbered in order of issue
uuid4 == Cardinality(DOMAIN status_map) + 1

\* An id string is <<form, n>>: str(uuid) is the canonical form; the UUID
\* constructor also accepts other spellings of the same value (upper case,
\* braces, urn:uuid:) and raises ValueError on anything else.
IdForms == {"canonical", "alternate", "malformed"}

str(id) == <<"canonical", id>>

UUID(idstr) == IF idstr[1] = "malformed" THEN "ValueError" ELSE "ok"

\* a variant that stores the new task as already failed
create_task_failed(map, id) ==
    map @@ (id :> [status |-> "FAILED", result |-> EmptyStr, info |-> "None"])

create_task(map, id) ==
    map @@ (id :> [status |-> "RUNNING", result |-> EmptyStr, info |-> "None"])

\* a variant that ignores the id and writes to every stored task
update_task_all(map, idstr, status, result, info) ==
    [u \in DOMAIN map |-> [status |-> IF status # "None" THEN status ELSE map[u].status,
                           result |-> IF result # EmptyStr THEN result ELSE map[u].result,
                           info   |-> IF info # "None" THEN info ELSE map[u].info]]

\* update_task on a stored id: falsy arguments ("" and None) leave the field alone
update_task(map, idstr, status, result, info) ==
    [map EXCEPT ![idstr[2]] = [status |-> IF status # "None" THEN status ELSE @.status,
                         result |-> IF result # EmptyStr THEN result ELSE @.result,
                         info   |-> IF info # "None" THEN info ELSE @.info]]

get_task(map, idstr) ==
    IF UUID(idstr) = "ValueError" THEN [kind |-> "raised", error |-> "ValueError"]
    ELSE IF idstr[2] \in DOMAIN map THEN [kind |-> "status", error |-> "none"]
    ELSE [kind |-> "None", error |-> "none"]

-----------------------------------------------------------------------------
(* Requests and remote platform states *)

\* A component as _start_provisioning reads it: its kind, the class it was
\* parsed into and the form of specific.workspace (a workspace URL or a name).
Components ==
    [kind : {"workload"},
     cls : {"JobWorkload", "WorkflowWorkload", "DLTWorkload"},
     workspace : {"url", "name"}]
    \cup [kind : {"outputport"}, cls : {"OutputPort"}, workspace : {"url", "name"}]
    \cup [kind : {"workload", "outputport"}, cls : {"Other"}, workspace : {"url"}]
    \cup [kind : {"storage"}, cls : {"Other"}, workspace : {"url"}]

NoComponent == [kind |-> "none", cls |-> "none", workspace |-> "none"]

\* DatabricksWorkspaceInfo, as far as the orchestrator reads it
WorkspaceInfos == [is_managed : BOOLEAN, provisioning_state : {"SUCCEEDED", "UPDATING"}]

NoWorkspace == [is_managed |-> FALSE, provisioning_state |-> "None"]

\* AzureWorkspaceHandler.get_workspace_info_by_name on a URL: built locally
url_workspace_info == [is_managed |-> FALSE, provisioning_state |-> "SUCCEEDED"]

LroStates == {"None", "InProgress", "Succeeded", "Failed"}

StatementStates == {"None", "PENDING", "RUNNING", "SUCCEEDED", "FAILED", "CANCELED", "CLOSED"}

\* the link carried by a completed task
info_of(component) ==
    CASE component.cls = "DLTWorkload" -> "pipelineUrl"
      [] component.cls = "OutputPort" -> "tableInfo"
      [] OTHER -> "jobUrl"

-----------------------------------------------------------------------------
(* Outcomes of a stretch of _start_provisioning between two polls *)

Write(status, result, info) ==
    [type |-> "return", status |-> status, result |-> result, info |-> info,
     exc |-> NoExc, left |-> 0]

Raise(exc) ==
    [type |-> "raise", status |-> "None", result |-> EmptyStr, info |-> "None",
     exc |-> exc, left |-> 0]

AwaitStatement(left) ==
    [type |-> "statement", status |-> "None", result |-> EmptyStr, info |-> "None",
     exc |-> NoExc, left |-> left]

AwaitWorkspace ==
    [type |-> "lro", status |-> "None", result |-> EmptyStr, info |-> "None",
     exc |-> NoExc, left |-> 0]

provisioning_error(msg) == [cls |-> "ProvisioningError", chain |-> <<msg>>]

\* a variant that lets every workspace through
always_ready(workspace_info) == FALSE

\* _raise_if_workspace_not_ready
workspace_not_ready(workspace_info) == workspace_info.provisioning_state # "SUCCEEDED"

\* _provision_job, _provision_workflow, _provision_dlt: the handler (for a
\* workflow, the validation before it) raises, or the resource id comes back
provision_workload_outcomes(component) ==
    {Write("COMPLETED", EmptyStr, info_of(component))}
    \cup {Raise(e) : e \in HandlerErrors}
    \cup (IF component.cls = "WorkflowWorkload"
          THEN {Raise(e) : e \in Exceptions} ELSE {})

\* _unprovision_job, _unprovision_workflow, _unprovision_dlt
unprovision_workload_outcomes(component) ==
    {Write("COMPLETED", EmptyStr, "None")}
    \cup {Raise(e) : e \in HandlerErrors}

\* _provision_output_port: managed workspaces are rejected, the table is
\* validated, then the handler runs its first SQL statement and polls it
provision_output_port_outcomes(workspace_info) ==
    IF workspace_info.is_managed
    THEN {Raise(provisioning_error(<<"managed workspace not supported">>))}
    ELSE {Raise(e) : e \in Exceptions}
         \cup {AwaitStatement(n) : n \in 1..MaxStatements}

\* _unprovision_output_port
unprovision_output_port_outcomes(workspace_info) ==
    {Write("COMPLETED", EmptyStr, "None")}
    \cup {Raise(e) : e \in HandlerErrors}

\* _handle_workload / _handle_output_port once the workspace is known:
\* readiness gate, workspace client, resource handler, final update_task
handle_with_workspace(component, is_provisioning, workspace_info) ==
    IF workspace_not_ready(workspace_info)
    THEN {Raise(provisioning_error(<<"workspace not ready">>))}
    ELSE {Raise(e) : e \in Exceptions}   \* get_workspace_client fails
         \cup (CASE component.kind = "workload" /\ is_provisioning ->
                        provision_workload_outcomes(component)
                 [] component.kind = "workload" /\ ~is_provisioning ->
                        unprovision_workload_outcomes(component)
                 [] component.kind = "outputport" /\ is_provisioning ->
                        provision_output_port_outcomes(workspace_info)
                 [] OTHER -> unprovision_output_port_outcomes(workspace_info))

\* AzureWorkspaceHandler.provision_workspace, up to the creation of a missing
\* workspace: a URL is used as is; a name is looked up (and created if absent).
\* The call stands for the value the coroutine resolves to.
provision_workspace_outcomes(component) ==
    IF component.workspace = "url"
    THEN handle_with_workspace(component, TRUE, url_workspace_info)
    ELSE {Raise(e) : e \in Exceptions}
         \cup {AwaitWorkspace}
         \cup UNION {handle_with_workspace(component, TRUE, w) :
                        w \in {i \in WorkspaceInfos : i.is_managed}}

\* a variant whose 'workspace not found' branch lacks its return: the skip is
\* recorded and the execution goes on to read the missing workspace
get_workspace_info_no_return(component) ==
    IF component.workspace = "url"
    THEN handle_with_workspace(component, FALSE, url_workspace_info)
    ELSE {Raise(e) : e \in Exceptions}
         \cup {[Raise([cls |-> "Exception", chain |-> <<(<<ErrTok[1]>>)>>])
                   EXCEPT !.status = "COMPLETED", !.result = <<"Unprovision skipped">>]}
         \cup UNION {handle_with_workspace(component, FALSE, w) :
                        w \in {i \in WorkspaceInfos : i.is_managed}}

\* AzureWorkspaceHandler.get_workspace_info; None means the workspace is gone
get_workspace_info_outcomes(component) ==
    IF component.workspace = "url"
    THEN handle_with_workspace(component, FALSE, url_workspace_info)
    ELSE {Raise(e) : e \in Exceptions}
         \cup {Write("COMPLETED", <<"Unprovision skipped">>, "None")}
         \cup UNION {handle_with_workspace(component, FALSE, w) :
                        w \in {i \in WorkspaceInfos : i.is_managed}}

\* _handle_workload and _handle_output_port from their first line
handle_component(component, is_provisioning) ==
    IF component.cls = "Other"
    THEN {Raise(provisioning_error(<<"unexpected structure">>))}
    ELSE IF is_provisioning THEN provision_workspace_outcomes(component)
         ELSE get_workspace_info_outcomes(component)

\* the dispatch on component.kind in _start_provisioning
dispatch(component, is_provisioning) ==
    IF component.kind \in {"workload", "outputport"}
    THEN handle_component(component, is_provisioning)
    ELSE {Write("FAILED", <<"kind not supported">>, "None")}

-----------------------------------------------------------------------------
(* The orchestrator as a state machine *)

NoObs == [terminal_writes |-> 0, raised |-> NoExc]

NoQuery == [id |-> <<"none", 0>>, answer |-> "none"]

TaskIds == DOMAIN status_map

\* a variant that forgets to schedule the execution
add_task_dropped(tasks, id, is_provisioning) == tasks

\* BackgroundTasks.add_task(self._start_provisioning, str(task_id), ..., is_provisioning)
add_task(tasks, id, is_provisioning) ==
    tasks @@ (id :> [task_id |-> str(id), is_provisioning |-> is_provisioning])

Without(f, t) == [x \in DOMAIN f \ {t} |-> f[x]]

Upsert(f, t, v) == [x \in DOMAIN f \cup {t} |-> IF x = t THEN v ELSE f[x]]

OrchInit ==
    /\ status_map = <<>>
    /\ background_tasks = <<>>
    /\ run = <<>>
    /\ lro_state = <<>>
    /\ statement_state = <<>>
    /\ returned = <<"none", 0>>
    /\ poll_tick = 0
    /\ obs = <<>>
    /\ last_status = NoQuery

\* ProvisionService.provision / unprovision: create the task, schedule, return
submit(is_provisioning) ==
    /\ LET id == uuid4 IN
         /\ status_map' = create_task(status_map, id)
         /\ background_tasks' = add_task(background_tasks, id, is_provisioning)
         /\ returned' = str(id)
         /\ obs' = obs @@ (id :> NoObs)
    /\ UNCHANGED <<run, lro_state, statement_state, poll_tick, last_status, wsVars, mapVars, extVars>>

provision == submit(TRUE)

unprovision == submit(FALSE)

\* The end of a stretch of _start_provisioning for the task with id string
\* task_id: the update_task made by _handle_workload / _handle_output_port (if
\* the stretch made one), then the update_task of the except clauses (if it
\* raised), or the next poll.
settle(task_id, component, o) ==
    LET t == task_id[2]
        handled == IF o.status # "None"
                   THEN update_task(status_map, task_id, o.status, o.result, o.info)
                   ELSE status_map
    IN
    /\ status_map' =
         IF o.type = "raise"
         THEN update_task(handled, task_id, "FAILED",
                          build_error_message_from_chained_exception(o.exc.chain), "None")
         ELSE handled
    /\ run' = Upsert(run, t,
         CASE o.type = "lro" ->
                [pc |-> "lro", component |-> component, left |-> 0]
           [] o.type = "statement" ->
                [pc |-> "statement", component |-> component, left |-> o.left]
           [] OTHER ->
                [pc |-> "done", component |-> NoComponent, left |-> 0])
    /\ lro_state' = Upsert(lro_state, t, IF o.type = "lro" THEN "InProgress" ELSE "None")
    /\ statement_state' =
         Upsert(statement_state, t, IF o.type = "statement" THEN "PENDING" ELSE "None")
    /\ obs' = [obs EXCEPT ![t] =
         [terminal_writes |-> @.terminal_writes
                               + (IF o.status \in Terminal THEN 1 ELSE 0)
                               + (IF o.type = "raise" THEN 1 ELSE 0),
          raised |-> IF o.type = "raise" THEN o.exc ELSE @.raised]]
    /\ UNCHANGED poll_tick

\* a polling request that finds the operation unfinished: the loop goes round
poll_again ==
    /\ poll_tick' = 1 - poll_tick
    /\ UNCHANGED <<status_map, run, lro_state, statement_state, obs>>

\* what one execution of _start_provisioning can do with the component it is
\* given: the outcome, and the component it goes on working with
executions ==
    [is_provisioning \in BOOLEAN |->
        UNION {{[outcome |-> o,
                 component |-> IF o.type \in {"lro", "statement"} THEN c ELSE NoComponent] :
                  o \in dispatch(c, is_provisioning)} : c \in Components}]

\* _start_provisioning, from its first line to its end or to its first poll
start_provisioning(t) ==
    /\ t \in DOMAIN background_tasks
    /\ \E x \in executions[background_tasks[t].is_provisioning] :
         settle(background_tasks[t].task_id, x.component, x.outcome)
    /\ background_tasks' = Without(background_tasks, t)
    /\ UNCHANGED <<returned, last_status, wsVars, mapVars, extVars>>

\* VerboseAsyncARMPolling._poll inside create_if_not_exists_workspace, then the
\* rest of provision_workspace and of the handler once the operation is over
poll_workspace_creation(t) ==
    /\ t \in DOMAIN run /\ run[t].pc = "lro"
    /\ IF lro_state[t] = "InProgress"
       THEN poll_again
       ELSE \E o \in (IF lro_state[t] = "Failed" THEN {}
                      ELSE handle_with_workspace(run[t].component, TRUE,
                             [is_managed |-> TRUE, provisioning_state |-> "SUCCEEDED"]))
                     \cup {Raise(e) : e \in Exceptions} :
                 settle(str(t), run[t].component, o)
    /\ UNCHANGED <<background_tasks, returned, last_status, wsVars, mapVars, extVars>>

\* StatementExecutionManager.poll_on_statement_execution inside
\* OutputPortHandler.provision_output_port, then the rest of the handler
poll_on_statement_execution(t) ==
    /\ t \in DOMAIN run /\ run[t].pc = "statement"
    /\ IF statement_state[t] \in {"PENDING", "RUNNING"}
       THEN \/ poll_again
            \/ \E e \in HandlerErrors : settle(str(t), run[t].component, Raise(e))
       ELSE \E o \in (IF statement_state[t] # "SUCCEEDED" THEN {}
                      ELSE IF run[t].left > 1
                      THEN {AwaitStatement(run[t].left - 1)}
                      ELSE {Write("COMPLETED", EmptyStr, info_of(run[t].component))})
                     \cup {Raise(e) : e \in HandlerErrors} :
                 settle(str(t), run[t].component, o)
    /\ UNCHANGED <<background_tasks, returned, last_status, wsVars, mapVars, extVars>>

\* Azure makes progress on a workspace creation
lro_advance(t) ==
    /\ t \in DOMAIN run /\ lro_state[t] = "InProgress"
    /\ \E s \in {"Succeeded", "Failed"} : lro_state' = [lro_state EXCEPT ![t] = s]
    /\ UNCHANGED <<status_map, background_tasks, run, statement_state, returned,
                   poll_tick, obs, last_status, wsVars, mapVars, extVars>>

\* Databricks makes progress on a SQL statement
statement_advance(t) ==
    /\ t \in DOMAIN run /\ statement_state[t] \in {"PENDING", "RUNNING"}
    /\ \E s \in (IF statement_state[t] = "PENDING" THEN {"RUNNING"} ELSE {})
               \cup {"SUCCEEDED", "FAILED", "CANCELED", "CLOSED"} :
         statement_state' = [statement_state EXCEPT ![t] = s]
    /\ UNCHANGED <<status_map, background_tasks, run, lro_state, returned,
                   poll_tick, obs, last_status, wsVars, mapVars, extVars>>

\* the tokens a client may send to the status endpoint
IdStrings == IdForms \X (1..(MaxTasks + 1))

\* ProvisionService.get_provisioning_status, as GET /v1/provision/{token}/status
\* calls it: the token is passed on as received
get_provisioning_status(idstr) ==
    /\ last_status' = [id |-> idstr,
                       answer |-> LET status == get_task(status_map, idstr) IN
                                  CASE status.kind = "raised" -> status.error
                                    [] status.kind = "status" -> "ProvisioningStatus"
                                    [] OTHER -> "SystemErr"]
    /\ UNCHANGED <<status_map, background_tasks, run, lro_state, statement_state,
                   returned, poll_tick, obs, wsVars, mapVars, extVars>>

\* the background execution of task t: at any time it is at one of these steps
execution(t) ==
    \/ start_provisioning(t)
    \/ poll_workspace_creation(t)
    \/ poll_on_statement_execution(t)

-----------------------------------------------------------------------------
(* One Databricks workspace, and the managers that call it.                 *)
(* Job ids (numbers) and pipeline ids (opaque strings) are both numbered;  *)
(* the platform gives every resource an id and does not keep names unique. *)

\* jobs and pipelines that the workspace holds
MaxResources == 2

ResourceIds == 1..MaxResources

Names == {"a", "b"}

NoId == 0

Call(api, id) == [api |-> api, id |-> id]

\* an exception: its class and <<str(e), str(e.__context__), ...>>
Exc(cls, chain) == [cls |-> cls, chain |-> chain]

\* the exception an SDK call raises
SdkError(api, id) == Exc("SdkError", << <<api \o " failed for " \o ToString(id)>> >>)

\* raise cls(msg) from e, or raise cls(msg) while e is being handled
From(cls, msg, e) == Exc(cls, << <<msg>> >> \o e.chain)

Return(value) == [type |-> "return", value |-> value, exc |-> NoExc]

Throw(exc) == [type |-> "raise", value |-> <<>>, exc |-> exc]

\* what a manager call leaves behind: the SDK calls it made, how it ended and
\* the resources the workspace holds afterwards
Done(made, outcome, resources) ==
    [calls |-> made, outcome |-> outcome, resources |-> resources]

RECURSIVE Ascending(_)
Ascending(S) ==
    IF S = {} THEN <<>>
    ELSE LET m == CHOOSE x \in S : \A y \in S : x <= y
         IN  <<m>> \o Ascending(S \ {m})

\* the platform's answer to a listing filtered by name
Matching(resources, name) == Ascending({i \in DOMAIN resources : resources[i] = name})

\* the id the platform gives to a new resource
NewId(resources) == CHOOSE i \in 1..(MaxResources + 1) :
                        /\ i \notin DOMAIN resources
                        /\ \A j \in 1..(i - 1) : j \in DOMAIN resources

Remove(resources, id) == [i \in DOMAIN resources \ {id} |-> resources[i]]

\* JobManager.list_jobs_with_given_name
list_jobs_with_given_name(js, job_name, fault) ==
    IF fault
    THEN Done(<<Call("jobs.list", NoId)>>,
              Throw(From("JobManagerError", "Error listing jobs named " \o job_name,
                         SdkError("jobs.list", NoId))), js)
    ELSE Done(<<Call("jobs.list", NoId)>>, Return(Matching(js, job_name)), js)

\* JobManager._create_job_with_new_cluster
create_job_with_new_cluster(js, job_name, fault) ==
    IF fault
    THEN Done(<<Call("jobs.create", NoId)>>,
              Throw(From("JobManagerError", "Error creating job " \o job_name,
                         SdkError("jobs.create", NoId))), js)
    ELSE Done(<<Call("jobs.create", NoId)>>, Return(<<NewId(js)>>),
              js @@ (NewId(js) :> job_name))

\* JobManager._update_job_with_new_cluster
update_job_with_new_cluster(js, job_id, job_name, fault) ==
    IF fault
    THEN Done(<<Call("jobs.update", job_id)>>,
              Throw(From("JobManagerError", "Error updating job " \o job_name,
                         SdkError("jobs.update", job_id))), js)
    ELSE Done(<<Call("jobs.update", job_id)>>, Return(<<job_id>>), js)

\* a manager call made after the calls of an earlier one
After(first, second) ==
    Done(first.calls \o second.calls, second.outcome, second.resources)

\* a variant that updates the first match whatever the number of matches
create_or_update_first_match(js, job_name, faults) ==
    LET listing == list_jobs_with_given_name(js, job_name, faults.list)
        existing_jobs == listing.outcome.value
    IN  IF listing.outcome.type = "raise" THEN listing
        ELSE IF existing_jobs = <<>>
        THEN After(listing, create_job_with_new_cluster(js, job_name, faults.write))
        ELSE After(listing, update_job_with_new_cluster(js, existing_jobs[1], job_name,
                                                        faults.write))

\* JobManager.create_or_update_job_with_new_cluster
create_or_update_job_with_new_cluster(js, job_name, faults) ==
    LET listing == list_jobs_with_given_name(js, job_name, faults.list)
        existing_jobs == listing.outcome.value
    IN  IF listing.outcome.type = "raise" THEN listing
        ELSE IF existing_jobs = <<>>
        THEN After(listing, create_job_with_new_cluster(js, job_name, faults.write))
        ELSE IF Len(existing_jobs) > 1
        THEN Done(listing.calls,
                  Throw(Exc("JobManagerError",
                            << <<"Error trying to update the job " \o job_name,
                                 "The job ", "name is not unique">> >>)), js)
        ELSE After(listing, update_job_with_new_cluster(js, existing_jobs[1], job_name,
                                                        faults.write))

\* JobManager.delete_job: fault is "ok" or "error"
delete_job(js, job_id, fault) ==
    IF fault = "error"
    THEN Done(<<Call("jobs.delete", job_id)>>,
              Throw(From("JobManagerError", "Error deleting job " \o ToString(job_id),
                         SdkError("jobs.delete", job_id))), js)
    ELSE Done(<<Call("jobs.delete", job_id)>>, Return(<<>>), Remove(js, job_id))

\* WorkflowManager.create_workflow
create_workflow(js, name, fault) ==
    IF name = ""
    THEN Done(<<>>, Throw(Exc("WorkflowManagerError",
                              << <<"Error, received empty workflow name">> >>)), js)
    ELSE IF fault
    THEN Done(<<Call("jobs.create", NoId)>>,
              Throw(From("WorkflowManagerError", "Failed to create workflow " \o name,
                         SdkError("jobs.create", NoId))), js)
    ELSE Done(<<Call("jobs.create", NoId)>>, Return(<<NewId(js)>>),
              js @@ (NewId(js) :> name))

\* WorkflowManager.update_workflow
update_workflow(js, job_id, name, fault) ==
    IF name = "" \/ job_id = NoId
    THEN Done(<<>>, Throw(Exc("WorkflowManagerError",
                              << <<"Error, received empty workflow name">> >>)), js)
    ELSE IF fault
    THEN Done(<<Call("jobs.reset", job_id)>>,
              Throw(From("WorkflowManagerError", "Failed to update workflow " \o name,
                         SdkError("jobs.reset", job_id))), js)
    ELSE Done(<<Call("jobs.reset", job_id)>>, Return(<<job_id>>), js)

\* a variant that creates the workflow again when one of that name exists
create_workflow_always(js, name, faults) ==
    LET listing == list_jobs_with_given_name(js, name, faults.list)
    IN  IF name = ""
        THEN Done(<<>>, Throw(Exc("WorkflowManagerError",
                                  << <<"Error, received empty workflow name">> >>)), js)
        ELSE IF listing.outcome.type = "raise" THEN listing
        ELSE After(listing, create_workflow(js, name, faults.write))

\* WorkflowManager.create_or_update_workflow
create_or_update_workflow(js, name, faults) ==
    LET listing == list_jobs_with_given_name(js, name, faults.list)
        existing_jobs == listing.outcome.value
    IN  IF name = ""
        THEN Done(<<>>, Throw(Exc("WorkflowManagerError",
                                  << <<"Error, received empty workflow name">> >>)), js)
        ELSE IF listing.outcome.type = "raise" THEN listing
        ELSE IF existing_jobs = <<>>
        THEN After(listing, create_workflow(js, name, faults.write))
        ELSE IF Len(existing_jobs) > 1
        THEN Done(listing.calls,
                  Throw(Exc("WorkflowManagerError",
                            << <<"Error trying to update the workflow " \o name,
                                 "The workflow ", "name is not unique">> >>)), js)
        ELSE After(listing, update_workflow(js, existing_jobs[1], name, faults.write))

\* DLTManager.list_pipelines_with_given_name
list_pipelines_with_given_name(ps, pipeline_name, fault) ==
    IF fault
    THEN Done(<<Call("pipelines.list_pipelines", NoId)>>,
              Throw(From("DLTManagerError",
                         "An error occurred while getting the list of DLT Pipelines named "
                             \o pipeline_name,
                         SdkError("pipelines.list_pipelines", NoId))), ps)
    ELSE Done(<<Call("pipelines.list_pipelines", NoId)>>,
              Return(Matching(ps, pipeline_name)), ps)

\* DLTManager._create_dlt_pipeline; the request carries at least one notebook
\* (DatabricksDLTWorkloadSpecific.notebooks has min_length 1)
create_dlt_pipeline(ps, pipeline_name, fault) ==
    IF fault
    THEN Done(<<Call("pipelines.create", NoId)>>,
              Throw(From("DLTManagerError",
                         "An error occurred while creating DLT Pipeline " \o pipeline_name,
                         SdkError("pipelines.create", NoId))), ps)
    ELSE Done(<<Call("pipelines.create", NoId)>>, Return(<<NewId(ps)>>),
              ps @@ (NewId(ps) :> pipeline_name))

\* DLTManager._update_dlt_pipeline
update_dlt_pipeline(ps, pipeline_id, pipeline_name, fault) ==
    IF fault
    THEN Done(<<Call("pipelines.update", pipeline_id)>>,
              Throw(From("DLTManagerError",
                         "An error occurred while updating DLT Pipeline " \o pipeline_name,
                         SdkError("pipelines.update", pipeline_id))), ps)
    ELSE Done(<<Call("pipelines.update", pipeline_id)>>, Return(<<pipeline_id>>), ps)

\* DLTManager.create_or_update_dlt_pipeline
create_or_update_dlt_pipeline(ps, pipeline_name, faults) ==
    LET listing == list_pipelines_with_given_name(ps, pipeline_name, faults.list)
        existing_pipelines == listing.outcome.value
    IN  IF listing.outcome.type = "raise" THEN listing
        ELSE IF existing_pipelines = <<>>
        THEN After(listing, create_dlt_pipeline(ps, pipeline_name, faults.write))
        ELSE IF Len(existing_pipelines) > 1
        THEN Done(listing.calls,
                  Throw(Exc("DLTManagerError",
                            << <<"Error trying to update pipeline " \o pipeline_name,
                                 "The ", "name is not unique">> >>)), ps)
        ELSE After(listing, update_dlt_pipeline(ps, existing_pipelines[1], pipeline_name,
                                                faults.write))

\* DLTManager.delete_pipeline: fault is "ok", "gone" (ResourceDoesNotExist,
\* which counts as deleted) or "error"
delete_pipeline(ps, pipeline_id, fault) ==
    IF fault = "error"
    THEN Done(<<Call("pipelines.delete", pipeline_id)>>,
              Throw(From("DLTManagerError",
                         "An error occurred while deleting DLT Pipeline "
                             \o ToString(pipeline_id),
                         SdkError("pipelines.delete", pipeline_id))), ps)
    ELSE Done(<<Call("pipelines.delete", pipeline_id)>>, Return(<<>>),
              Remove(ps, pipeline_id))

\* RepoManager.delete_repo: the result tells whether the repository is still
\* there. fault is "ok", "gone" (ResourceDoesNotExist) or "error".
delete_repo(exists, fault) ==
    IF fault = "error"
    THEN Done(<<Call("workspace.list", NoId)>>,
              Throw(From("RepoManagerError", "Error deleting repo",
                         SdkError("workspace.list", NoId))), exists)
    ELSE IF fault = "gone" \/ ~exists
    THEN Done(<<Call("workspace.list", NoId)>>, Return(<<>>), FALSE)
    ELSE Done(<<Call("workspace.list", NoId), Call("repos.get", NoId),
                Call("repos.delete", NoId)>>, Return(<<>>), FALSE)

-----------------------------------------------------------------------------
(* The workload handlers' unprovisioning *)

message(e) == Head(e.chain)

\* ",".join(errors)
RECURSIVE join(_)
join(errors) ==
    IF Len(errors) = 1 THEN Head(errors)
    ELSE Head(errors) \o <<",">> \o join(Tail(errors))

\* ProvisioningError(errors), raised while no exception is being handled
ProvisioningError(errors) == Exc("ProvisioningError", <<join(errors)>>)

\* what a handler leaves behind
Handled(made, outcome, resources, exists) ==
    [calls |-> made, outcome |-> outcome, resources |-> resources, repo |-> exists]

\* the loop over jobs_to_delete: every job is tried and the exceptions are collected
RECURSIVE delete_jobs(_, _, _)
delete_jobs(js, jobs_to_delete, fault) ==
    IF jobs_to_delete = <<>> THEN [calls |-> <<>>, errors |-> <<>>, resources |-> js]
    ELSE LET first == delete_job(js, Head(jobs_to_delete), fault[Head(jobs_to_delete)])
             rest == delete_jobs(first.resources, Tail(jobs_to_delete), fault)
         IN  [calls |-> first.calls \o rest.calls,
              errors |-> (IF first.outcome.type = "raise"
                          THEN <<first.outcome.exc>> ELSE <<>>) \o rest.errors,
              resources |-> rest.resources]

\* the loop over pipelines_to_delete
RECURSIVE delete_pipelines(_, _, _)
delete_pipelines(ps, pipelines_to_delete, fault) ==
    IF pipelines_to_delete = <<>> THEN [calls |-> <<>>, errors |-> <<>>, resources |-> ps]
    ELSE LET first == delete_pipeline(ps, Head(pipelines_to_delete),
                                      fault[Head(pipelines_to_delete)])
             rest == delete_pipelines(first.resources, Tail(pipelines_to_delete), fault)
         IN  [calls |-> first.calls \o rest.calls,
              errors |-> (IF first.outcome.type = "raise"
                          THEN <<first.outcome.exc>> ELSE <<>>) \o rest.errors,
              resources |-> rest.resources]

\* the tail shared by the three handlers: delete the repository if requested
remove_repository(made, resources, exists, remove_data, fault) ==
    IF remove_data
    THEN LET removal == delete_repo(exists, fault)
         IN  Handled(made \o removal.calls, removal.outcome, resources, removal.resources)
    ELSE Handled(made, Return(<<>>), resources, exists)

\* JobWorkloadHandler.unprovision_workload
JobWorkloadHandler_unprovision_workload(js, exists, jobName, remove_data, faults) ==
    LET listing == list_jobs_with_given_name(js, jobName, faults.list)
        jobs_to_delete == listing.outcome.value
        deletion == delete_jobs(js, jobs_to_delete, faults.delete)
        errors == (IF listing.outcome.type = "raise"
                   THEN <<listing.outcome.exc>> ELSE <<>>) \o deletion.errors
        made == listing.calls \o deletion.calls
        body == IF errors # <<>>
                THEN Handled(made,
                             Throw(ProvisioningError(
                                 [i \in 1..Len(errors) |-> message(errors[i])])),
                             deletion.resources, exists)
                ELSE remove_repository(made, deletion.resources, exists, remove_data,
                                       faults.repo)
    IN  IF body.outcome.type = "raise"
        THEN Handled(body.calls,
                     Throw(From("ProvisioningError", "Error unprovisioning component",
                                body.outcome.exc)),
                     body.resources, body.repo)
        ELSE body

\* Optional[List[WorkflowTasksInfo]]: None, or a list that may be empty
NoTasksInfo == [some |-> FALSE, value |-> <<>>]

TasksInfo(list) == [some |-> TRUE, value |-> list]

\* a variant that takes a missing list for a given one
tasks_info_given_or_absent(workflow_tasks_info) ==
    ~workflow_tasks_info.some \/ Len(workflow_tasks_info.value) > 0

\* specific.workflow_tasks_info and len(specific.workflow_tasks_info) > 0
tasks_info_given(workflow_tasks_info) ==
    workflow_tasks_info.some /\ Len(workflow_tasks_info.value) > 0

\* WorkflowWorkloadHandler.unprovision_workload
WorkflowWorkloadHandler_unprovision_workload(js, exists, specific, remove_data, faults) ==
    LET listing == list_jobs_with_given_name(js, specific.name, faults.list)
        jobs_to_delete == listing.outcome.value
        deletion == delete_jobs(js, jobs_to_delete, faults.delete)
        errors == deletion.errors
        made == listing.calls \o deletion.calls
        removal == remove_repository(made, deletion.resources, exists, remove_data,
                                     faults.repo)
        wrapped(e) == From("ProvisioningError",
                           "An error occurred while unprovisioning component", e)
    IN  IF ~tasks_info_given(specific.workflow_tasks_info)
        THEN Handled(<<>>, Throw(ProvisioningError(
                 << <<"Error, received empty specific.workflowTasksInfoList">> >>)),
                 js, exists)
        ELSE IF specific.name = ""
        THEN Handled(<<>>, Throw(ProvisioningError(
                 << <<"Error, received empty specific.workflow.settings.name">> >>)),
                 js, exists)
        ELSE IF listing.outcome.type = "raise"
        THEN Handled(listing.calls, Throw(wrapped(listing.outcome.exc)), js, exists)
        ELSE IF errors # <<>>
        THEN Handled(made,
                     Throw(ProvisioningError(
                         [i \in 1..Len(errors) |-> message(errors[i])])),
                     deletion.resources, exists)
        ELSE IF removal.outcome.type = "raise"
        THEN Handled(removal.calls, Throw(wrapped(removal.outcome.exc)),
                     removal.resources, removal.repo)
        ELSE removal

\* DLTWorkloadHandler.unprovision_workload
DLTWorkloadHandler_unprovision_workload(ps, exists, pipeline_name, remove_data, faults) ==
    LET listing == list_pipelines_with_given_name(ps, pipeline_name, faults.list)
        pipelines_to_delete == listing.outcome.value
        deletion == delete_pipelines(ps, pipelines_to_delete, faults.delete)
        problems == deletion.errors
        made == listing.calls \o deletion.calls
        removal == remove_repository(made, deletion.resources, exists, remove_data,
                                     faults.repo)
        wrapped(e) == From("ProvisioningError", "Error unprovisioning component", e)
    IN  IF listing.outcome.type = "raise"
        THEN Handled(listing.calls, Throw(wrapped(listing.outcome.exc)), ps, exists)
        ELSE IF problems # <<>>
        THEN Handled(made,
                     Throw(ProvisioningError(
                         [i \in 1..Len(problems) |->
                             build_error_message_from_chained_exception(problems[i].chain)])),
                     deletion.resources, exists)
        ELSE IF removal.outcome.type = "raise"
        THEN Handled(removal.calls, Throw(wrapped(removal.outcome.exc)),
                     removal.resources, removal.repo)
        ELSE removal

-----------------------------------------------------------------------------
(* The workspace state machine: each manager or handler call is one step *)

CreateFaults == [list : BOOLEAN, write : BOOLEAN]

\* the faults that can show in an unprovisioning: a failed listing ends it, a
\* failed deletion or a remove_data of False keeps it from the repository
DeleteFaults(listed, outcomes, remove_data) ==
    {f \in [list : BOOLEAN, delete : [listed -> outcomes],
            repo : {"ok", "gone", "error"}] :
        /\ f.list => \A i \in listed : f.delete[i] = "ok"
        /\ (f.list \/ ~remove_data \/ \E i \in listed : f.delete[i] = "error")
              => f.repo = "ok"}

\* the workspace holds no more than MaxResources jobs and pipelines
Fits(js, ps) ==
    /\ DOMAIN js \subseteq ResourceIds /\ DOMAIN ps \subseteq ResourceIds
    /\ Cardinality(DOMAIN js) + Cardinality(DOMAIN ps) <= MaxResources

NamedLike(resources, name) == {i \in DOMAIN resources : resources[i] = name}

NoReply == [op |-> "none", cls |-> "none", name |-> "", remove_data |-> FALSE,
            tasks_info |-> NoTasksInfo,
            listing |-> Return(<<>>), failed |-> {}, outcome |-> Return(<<>>)]

WsInit ==
    /\ jobs = <<>> /\ pipelines = <<>> /\ repo = FALSE
    /\ calls = <<>> /\ reply = NoReply

\* people and other tools working in the same workspace: a job, a pipeline or
\* the repository appears (names already in use are accepted)
workspace_user ==
    /\ \/ \E name \in Names : /\ Fits(jobs @@ (NewId(jobs) :> name), pipelines)
                              /\ jobs' = jobs @@ (NewId(jobs) :> name)
                              /\ UNCHANGED <<pipelines, repo>>
       \/ \E name \in Names : /\ Fits(jobs, pipelines @@ (NewId(pipelines) :> name))
                              /\ pipelines' = pipelines @@ (NewId(pipelines) :> name)
                              /\ UNCHANGED <<jobs, repo>>
       \/ ~repo /\ repo' = TRUE /\ UNCHANGED <<jobs, pipelines>>
    /\ calls' = <<>> /\ reply' = NoReply
    /\ UNCHANGED <<orchVars, mapVars, extVars>>

create_or_update_reply(cls, name, listing, r) ==
    [op |-> "create_or_update", cls |-> cls, name |-> name, remove_data |-> FALSE,
     tasks_info |-> NoTasksInfo, listing |-> listing, failed |-> {}, outcome |-> r.outcome]

\* JobWorkloadHandler._create_job calling the job manager
job_create_or_update(name, faults) ==
    \E r \in {create_or_update_job_with_new_cluster(jobs, name, faults)} :
        /\ Fits(r.resources, pipelines)
        /\ jobs' = r.resources /\ calls' = r.calls
        /\ reply' = create_or_update_reply(
                        "Job", name, list_jobs_with_given_name(jobs, name, faults.list).outcome, r)
        /\ UNCHANGED <<pipelines, repo, orchVars, mapVars, extVars>>

\* WorkflowWorkloadHandler._provision_workflow_internal calling the workflow manager
workflow_create_or_update(name, faults) ==
    \E r \in {create_or_update_workflow(jobs, name, faults)} :
        /\ Fits(r.resources, pipelines)
        /\ jobs' = r.resources /\ calls' = r.calls
        /\ reply' = create_or_update_reply(
                        "Workflow", name,
                        list_jobs_with_given_name(jobs, name, faults.list).outcome, r)
        /\ UNCHANGED <<pipelines, repo, orchVars, mapVars, extVars>>

\* DLTWorkloadHandler.provision_workload calling the DLT manager
pipeline_create_or_update(name, faults) ==
    \E r \in {create_or_update_dlt_pipeline(pipelines, name, faults)} :
        /\ Fits(jobs, r.resources)
        /\ pipelines' = r.resources /\ calls' = r.calls
        /\ reply' = create_or_update_reply(
                        "Pipeline", name,
                        list_pipelines_with_given_name(pipelines, name, faults.list).outcome, r)
        /\ UNCHANGED <<jobs, repo, orchVars, mapVars, extVars>>

unprovision_reply(cls, name, remove_data, listing, failed, r) ==
    [op |-> "unprovision", cls |-> cls, name |-> name, remove_data |-> remove_data,
     tasks_info |-> NoTasksInfo, listing |-> listing, failed |-> failed, outcome |-> r.outcome]

job_unprovision(name, remove_data, faults) ==
    \E r \in {JobWorkloadHandler_unprovision_workload(jobs, repo, name, remove_data, faults)} :
        /\ jobs' = r.resources /\ repo' = r.repo /\ calls' = r.calls
        /\ reply' = unprovision_reply(
                        "Job", name, remove_data,
                        list_jobs_with_given_name(jobs, name, faults.list).outcome,
                        {i \in DOMAIN faults.delete : faults.delete[i] # "ok"}, r)
        /\ UNCHANGED <<pipelines, orchVars, mapVars, extVars>>

workflow_unprovision(specific, remove_data, faults) ==
    \E r \in {WorkflowWorkloadHandler_unprovision_workload(jobs, repo, specific,
                                                          remove_data, faults)} :
        /\ jobs' = r.resources /\ repo' = r.repo /\ calls' = r.calls
        /\ reply' = [unprovision_reply(
                        "Workflow", specific.name, remove_data,
                        list_jobs_with_given_name(jobs, specific.name, faults.list).outcome,
                        {i \in DOMAIN faults.delete : faults.delete[i] # "ok"}, r)
                        EXCEPT !.tasks_info = specific.workflow_tasks_info]
        /\ UNCHANGED <<pipelines, orchVars, mapVars, extVars>>

dlt_unprovision(name, remove_data, faults) ==
    \E r \in {DLTWorkloadHandler_unprovision_workload(pipelines, repo, name,
                                                     remove_data, faults)} :
        /\ pipelines' = r.resources /\ repo' = r.repo /\ calls' = r.calls
        /\ reply' = unprovision_reply(
                        "Pipeline", name, remove_data,
                        list_pipelines_with_given_name(pipelines, name, faults.list).outcome,
                        {i \in DOMAIN faults.delete : faults.delete[i] = "error"}, r)
        /\ UNCHANGED <<jobs, orchVars, mapVars, extVars>>

\* a workflow as the handler reads it: its name and its task info list
WorkflowSpecifics ==
    [name : Names \cup {""},
     workflow_tasks_info : {NoTasksInfo, TasksInfo(<<>>), TasksInfo(<<"info">>)}]

\* the ones that pass the handler's checks, after which faults can show
ValidSpecifics == {specific \in WorkflowSpecifics :
                      tasks_info_given(specific.workflow_tasks_info) /\ specific.name # ""}

NextWs ==
    \/ workspace_user
    \/ \E name \in Names, faults \in CreateFaults : job_create_or_update(name, faults)
    \/ \E name \in Names \cup {""}, faults \in CreateFaults :
           workflow_create_or_update(name, faults)
    \/ \E name \in Names, faults \in CreateFaults : pipeline_create_or_update(name, faults)
    \/ \E name \in Names, remove_data \in BOOLEAN :
           \E faults \in DeleteFaults(NamedLike(jobs, name), {"ok", "error"}, remove_data) :
               job_unprovision(name, remove_data, faults)
    \/ \E specific \in WorkflowSpecifics, remove_data \in BOOLEAN :
           \E faults \in DeleteFaults(NamedLike(jobs, specific.name), {"ok", "error"},
                                      remove_data /\ specific \in ValidSpecifics) :
               /\ specific \notin ValidSpecifics => ~faults.list
               /\ workflow_unprovision(specific, remove_data, faults)
    \/ \E name \in Names, remove_data \in BOOLEAN :
           \E faults \in DeleteFaults(NamedLike(pipelines, name), {"ok", "gone", "error"},
                                      remove_data) :
               dlt_unprovision(name, remove_data, faults)

-----------------------------------------------------------------------------
(* The identity mappers. A reference is a sequence of tokens, the prefix    *)
(* first; an identity is a sequence of tokens as well. The directories      *)
(* answer a lookup by display name without regard to case, and every group  *)
(* they return carries its display name and its id.                         *)

\* groups that the two directories hold
MaxGroups == 2

USER_PREFIX == "user:"

GROUP_PREFIX == "group:"

GroupNames == {"dev", "Dev"}

JohnMail == <<"john", "_", "doe", "@", "x.com">>

Refs == {<<USER_PREFIX, "john", "_", "doe", "_", "x.com">>, <<USER_PREFIX, "ann">>,
         <<GROUP_PREFIX, "dev">>, <<GROUP_PREFIX, "ops">>, <<"dev">>}

startswith(ref, prefix) == Len(ref) > 0 /\ ref[1] = prefix

\* ref[len(prefix):]
after_prefix(ref) == SubSeq(ref, 2, Len(ref))

lower(name) ==
    IF name = "Dev" THEN "dev"
    ELSE IF name = "Development" THEN "development"
    ELSE IF name = "NO_PERMISSIONS" THEN "no_permissions"
    ELSE name

\* str.rfind, on positions 1..Len
rfind(s, c) ==
    IF \E i \in 1..Len(s) : s[i] = c
    THEN CHOOSE i \in 1..Len(s) : s[i] = c /\ \A j \in (i + 1)..Len(s) : s[j] # c
    ELSE -1

\* what the mapping of one subject gives: an identity, or an exception
Mapped(identity) == [type |-> "return", value |-> identity, cls |-> "none"]

Failed(cls, text) == [type |-> "raise", value |-> text, cls |-> cls]

\* the groups a directory returns for displayName eq '<name>', in its order
found(groups, name) ==
    SelectSeq([i \in 1..Len(groups) |-> [id |-> i, display_name |-> groups[i]]],
              LAMBDA g : lower(g.display_name) = lower(name))

\* DatabricksMapper.retrieve_case_sensitive_group_display_name
retrieve_case_sensitive_group_display_name(groups, name, fault) ==
    IF fault
    THEN Failed("DatabricksMapperError",
                <<"Databricks API call failed while retrieving group", name>>)
    ELSE IF found(groups, name) = <<>>
    THEN Failed("DatabricksMapperError", <<"Group", name, "not found">>)
    ELSE IF Len(found(groups, name)) > 1
    THEN Failed("DatabricksMapperError", <<"More than one group with name", name>>)
    ELSE Mapped(<<found(groups, name)[1].display_name>>)

\* DatabricksMapper._get_and_map_user
databricks_get_and_map_user(user) ==
    LET underscore_index == rfind(user, "_")
    IN  IF underscore_index = -1 THEN Mapped(user)
        ELSE Mapped(SubSeq(user, 1, underscore_index - 1) \o <<"@">>
                        \o SubSeq(user, underscore_index + 1, Len(user)))

\* DatabricksMapper._map_subject
databricks_map_subject(groups, ref, fault) ==
    IF startswith(ref, USER_PREFIX) THEN databricks_get_and_map_user(after_prefix(ref))
    ELSE IF startswith(ref, GROUP_PREFIX)
    THEN retrieve_case_sensitive_group_display_name(groups, after_prefix(ref)[1], fault)
    ELSE Failed("DatabricksMapperError",
                <<"The subject is neither a Witboost user nor a group">>)

\* an entry of the mapping: the identity, or the exception as a value
Entry(outcome) ==
    IF outcome.type = "return" THEN [kind |-> "identity", value |-> outcome.value]
    ELSE [kind |-> "error", value |-> outcome.value]

\* DatabricksMapper.map: exceptions other than DatabricksMapperError leave it
DatabricksMapper_map(groups, subjects, failing) ==
    LET outcome(ref) == databricks_map_subject(groups, ref, ref \in failing)
    IN  [raised |-> \E ref \in subjects :
                        /\ outcome(ref).type = "raise"
                        /\ outcome(ref).cls # "DatabricksMapperError",
         results |-> [ref \in subjects |-> Entry(outcome(ref))]]

\* AzureGraphClient.get_user_id
get_user_id(users, mail, fault) ==
    IF fault
    THEN Failed("AzureGraphClientError",
                <<"An unexpected error occurred while getting user ID for">> \o mail)
    ELSE IF mail \notin users
    THEN Failed("AzureGraphClientError", <<"User">> \o mail \o <<"not found">>)
    ELSE Mapped(<<"object id of">> \o mail)

\* AzureGraphClient.get_group_id
get_group_id(groups, group_name, fault) ==
    IF fault
    THEN Failed("AzureGraphClientError",
                <<"An unexpected error occurred while getting group ID for", group_name>>)
    ELSE IF found(groups, group_name) = <<>>
    THEN Failed("AzureGraphClientError", <<"Group", group_name, "not found">>)
    ELSE Mapped(<<"object id of group", ToString(found(groups, group_name)[1].id)>>)

\* AzureMapper._get_and_map_user
azure_get_and_map_user(users, user, fault) ==
    LET underscore_index == rfind(user, "_")
        mail == IF underscore_index = -1 THEN user
                ELSE SubSeq(user, 1, underscore_index - 1) \o <<"@">>
                         \o SubSeq(user, underscore_index + 1, Len(user))
    IN  get_user_id(users, mail, fault)

\* AzureMapper._map_subject
azure_map_subject(groups, users, ref, fault) ==
    IF startswith(ref, USER_PREFIX)
    THEN azure_get_and_map_user(users, after_prefix(ref), fault)
    ELSE IF startswith(ref, GROUP_PREFIX)
    THEN get_group_id(groups, after_prefix(ref)[1], fault)
    ELSE Failed("AzureMapperError", <<"The subject is neither a Witboost user nor a group">>)

\* AzureMapper.map: every exception is caught and stored as an AzureMapperError
AzureMapper_map(groups, users, subjects, failing) ==
    LET outcome(ref) == azure_map_subject(groups, users, ref, ref \in failing)
    IN  [raised |-> FALSE,
         results |-> [ref \in subjects |-> Entry(outcome(ref))]]

-----------------------------------------------------------------------------
(* The mappers' state machine: the directories and the last map call *)

NoResults == [mapper |-> "none", subjects |-> {}, failing |-> {}, raised |-> FALSE,
              results |-> <<>>]

MapInit ==
    /\ account_groups = <<>> /\ tenant_groups = <<>> /\ tenant_users = {}
    /\ results = NoResults

\* the administrators of the directories: a group is added to the Databricks
\* account or to the Azure tenant, or a user to the tenant
directory_admin ==
    /\ \/ \E name \in GroupNames :
             /\ Len(account_groups) + Len(tenant_groups) < MaxGroups
             /\ account_groups' = Append(account_groups, name)
             /\ UNCHANGED <<tenant_groups, tenant_users>>
       \/ \E name \in GroupNames :
             /\ Len(account_groups) + Len(tenant_groups) < MaxGroups
             /\ tenant_groups' = Append(tenant_groups, name)
             /\ UNCHANGED <<account_groups, tenant_users>>
       \/ /\ JohnMail \notin tenant_users
          /\ tenant_users' = tenant_users \cup {JohnMail}
          /\ UNCHANGED <<account_groups, tenant_groups>>
    /\ results' = NoResults
    /\ UNCHANGED <<orchVars, wsVars, extVars>>

\* the lookups that can fail in one call: none, or the lookup of one subject
OneOf(lookups) == {{}} \cup {{ref} : ref \in lookups}

\* BaseWorkloadHandler.map_principals and the ACL handlers calling the mapper
databricks_map(subjects, failing) ==
    \E r \in {DatabricksMapper_map(account_groups, subjects, failing)} :
        /\ results' = [mapper |-> "databricks", subjects |-> subjects,
                       failing |-> failing, raised |-> r.raised, results |-> r.results]
        /\ UNCHANGED <<account_groups, tenant_groups, tenant_users, orchVars, wsVars, extVars>>

\* AzureWorkspaceHandler calling the Azure mapper
azure_map(subjects, failing) ==
    \E r \in {AzureMapper_map(tenant_groups, tenant_users, subjects, failing)} :
        /\ results' = [mapper |-> "azure", subjects |-> subjects,
                       failing |-> failing, raised |-> r.raised, results |-> r.results]
        /\ UNCHANGED <<account_groups, tenant_groups, tenant_users, orchVars, wsVars, extVars>>

NextMap ==
    \/ directory_admin
    \/ \E subjects \in SUBSET Refs :
           \E failing \in OneOf({ref \in subjects : startswith(ref, GROUP_PREFIX)}) :
               databricks_map(subjects, failing)
    \/ \E subjects \in SUBSET Refs :
           \E failing \in OneOf({ref \in subjects : startswith(ref, USER_PREFIX)
                                                     \/ startswith(ref, GROUP_PREFIX)}) :
               azure_map(subjects, failing)

-----------------------------------------------------------------------------
(* Access control of the output port's view: UnityCatalogManager and
   OutputPortHandler.update_acl.  A grant is a record of a principal, a
   privilege and the securable it is on; a principal is the identity the
   mapper gives, a sequence of tokens. *)

MaxGrants == 2

\* settings.misc.development_environment_name, as the deployment configures it
development_environment_name == "development"

\* data_product.environment
Environments == {"development", "Development", "production"}

\* data_product.dataProductOwner and data_product.devGroup
Owner == <<USER_PREFIX, "ann">>

DevGroup == <<"dev">>

DevGroupRef == <<GROUP_PREFIX, "dev">>

\* the order in which a set of references, or the principals of a securable, is iterated
\* a reference to a group the account does not hold
OpsGroupRef == <<GROUP_PREFIX, "ops">>

RefOrder == <<Owner, DevGroupRef, OpsGroupRef>>

PrincipalOrder == << <<"ann">>, <<"bob">>, <<"Dev">> >>

Ordered(set, order) == SelectSeq(order, LAMBDA x : x \in set)

Grant(principal, privilege, object) ==
    [principal |-> principal, privilege |-> privilege, object |-> object]

Change(principal, privilege, object, is_grant_added) ==
    [principal |-> principal, privilege |-> privilege, object |-> object,
     add |-> is_grant_added]

\* the exception of workspace_client.grants
GrantsError(api) == Exc("DatabricksError", << <<api, "failed">> >>)

\* raise cls(text) from e
RaiseFrom(cls, text, e) == Throw(Exc(cls, <<text>> \o e.chain))

\* str(e) of a mapping failure, with the cause the mapper chained to it
mapping_chain(ref, entry, failing) ==
    IF ref \in failing THEN <<entry.value, <<"account_client.groups.list", "failed">> >>
    ELSE <<entry.value>>

\* UnityCatalogManager.update_databricks_permissions
update_databricks_permissions(gs, principal, privilege, is_grant_added, db_object, failing) ==
    LET action == IF is_grant_added THEN "adding" ELSE "removing"
        error_msg == <<"Error", action, "permission", privilege, "on object", db_object,
                       "for principal">> \o principal
        call == Change(principal, privilege, db_object, is_grant_added)
    IN  IF [principal |-> principal, privilege |-> privilege] \in failing
        THEN [grants |-> gs, calls |-> <<call>>,
              outcome |-> RaiseFrom("UnityCatalogError", error_msg, GrantsError("grants.update"))]
        ELSE [grants |-> IF is_grant_added
                         THEN gs \cup {Grant(principal, privilege, db_object)}
                         ELSE gs \ {Grant(principal, privilege, db_object)},
              calls |-> <<call>>, outcome |-> Return(<<>>)]

\* UnityCatalogManager.assign_databricks_permission_to_table_or_view
assign_databricks_permission_to_table_or_view(gs, principal, privilege, failing) ==
    LET on_view == update_databricks_permissions(gs, principal, privilege, TRUE, "view", failing)
        on_catalog == update_databricks_permissions(on_view.grants, principal, "USE_CATALOG",
                                                    TRUE, "catalog", failing)
        on_schema == update_databricks_permissions(on_catalog.grants, principal, "USE_SCHEMA",
                                                   TRUE, "schema", failing)
    IN  IF on_view.outcome.type = "raise" THEN on_view
        ELSE IF on_catalog.outcome.type = "raise"
        THEN [on_catalog EXCEPT !.calls = on_view.calls \o on_catalog.calls]
        ELSE [on_schema EXCEPT !.calls = on_view.calls \o on_catalog.calls \o on_schema.calls]

\* UnityCatalogManager.retrieve_databricks_permissions: the privilege assignments
\* on the view, one for each principal holding a privilege on it
retrieve_databricks_permissions(gs, fault) ==
    IF fault
    THEN RaiseFrom("UnityCatalogError",
                   <<"An error occurred while retrieving current permission on", "view">>,
                   GrantsError("grants.get"))
    ELSE Return(Ordered({g.principal : g \in {h \in gs : h.object = "view"}}, PrincipalOrder))

\* OutputPortHandler.map_principals
map_principals(groups, failing) ==
    LET dev_group == IF startswith(DevGroup, GROUP_PREFIX) THEN DevGroup
                     ELSE <<GROUP_PREFIX>> \o DevGroup
        subjects_to_map == {Owner, dev_group}
        mapped_principals == DatabricksMapper_map(groups, subjects_to_map, failing)
        errors == SelectSeq(Ordered(subjects_to_map, RefOrder),
                            LAMBDA ref : mapped_principals.results[ref].kind = "error")
        inner == ProvisioningError([i \in 1..Len(errors) |->
                                        mapped_principals.results[errors[i]].value])
        unexpected(e) == RaiseFrom("ProvisioningError",
                                   <<"An unexpected error occurred while mapping principals",
                                     "Details:">> \o message(e), e)
        owner_id == mapped_principals.results[Owner].value
        dev_group_id == mapped_principals.results[dev_group].value
    IN  IF errors # <<>> THEN unexpected(inner)
        ELSE IF owner_id = <<>> \/ dev_group_id = <<>>
        THEN unexpected(ProvisioningError(<< <<"Error while mapping principals">> >>))
        ELSE Return(<<owner_id, dev_group_id>>)

\* what a loop of update_acl has done so far
Progress(gs, made, errors) == [grants |-> gs, calls |-> made, errors |-> errors]

\* a variant that keeps the latest error only
collect_latest(progress, step) ==
    Progress(step.grants, progress.calls \o step.calls,
             IF step.outcome.type = "raise"
             THEN <<build_error_message_from_chained_exception(step.outcome.exc.chain)>>
             ELSE progress.errors)

\* one turn of a loop of update_acl: the change is tried and its exception collected
Collect(progress, step) ==
    Progress(step.grants, progress.calls \o step.calls,
             IF step.outcome.type = "raise"
             THEN Append(progress.errors,
                         build_error_message_from_chained_exception(step.outcome.exc.chain))
             ELSE progress.errors)

\* a variant that revokes the principals of the list as well
revoked_unless_kept(principal, kept, successful) == principal \notin kept

\* a variant that revokes the principals of the list and leaves the others
revoked_if_listed(principal, kept, successful) == principal \in successful

\* update_acl, step 2: whether the SELECT of a principal of current_permissions is
\* revoked.  The principals of kept are the mapped owner and dev group in the
\* development environment.
no_longer_granted(principal, kept, successful) ==
    IF principal \in kept THEN FALSE
    ELSE IF principal \notin successful THEN TRUE
    ELSE FALSE

\* update_acl, step 2: the loop over current_permissions
RECURSIVE revoke_removed(_, _, _, _, _)
revoke_removed(progress, current_permissions, kept, successful, failing) ==
    IF current_permissions = <<>> THEN progress
    ELSE IF no_longer_granted(Head(current_permissions), kept, successful)
    THEN revoke_removed(Collect(progress,
                                update_databricks_permissions(progress.grants,
                                                              Head(current_permissions),
                                                              "SELECT", FALSE, "view", failing)),
                        Tail(current_permissions), kept, successful, failing)
    ELSE revoke_removed(progress, Tail(current_permissions), kept, successful, failing)

\* update_acl, step 3: the loop over successful_mappings.values()
RECURSIVE grant_desired(_, _, _)
grant_desired(progress, databricks_ids, failing) ==
    IF databricks_ids = <<>> THEN progress
    ELSE grant_desired(Collect(progress,
                               assign_databricks_permission_to_table_or_view(
                                   progress.grants, Head(databricks_ids), "SELECT", failing)),
                       Tail(databricks_ids), failing)

\* a variant that keeps them in every environment
preserved_everywhere(environment, principals) == {principals[1], principals[2]}

\* the principals update_acl keeps whatever the list says
preserved(environment, principals) ==
    IF lower(environment) = lower(development_environment_name)
    THEN {principals[1], principals[2]} ELSE {}

\* a variant that takes every reference for a mapped one
no_mapping_errors(refs, mapped_principals) == <<>>

\* update_acl, step 1: the references whose mapping is an exception
mapping_errors(refs, mapped_principals) ==
    SelectSeq(refs, LAMBDA ref : mapped_principals.results[ref].kind = "error")

\* what update_acl leaves behind
Updated(gs, made, outcome) == [grants |-> gs, calls |-> made, outcome |-> outcome]

\* OutputPortHandler.update_acl; faults names the lookups and the grant changes
\* that fail in this call
update_acl(gs, groups, environment, witboost_identities, faults) ==
    LET failed(progress, e) ==
            Updated(progress.grants, progress.calls,
                    RaiseFrom("ProvisioningError",
                              <<"An error occurred while updating ACL for", "view">>, e))
        start == Progress(gs, <<>>, <<>>)
        principals == map_principals(groups, faults.mapping)
        mapped_principals == DatabricksMapper_map(groups, witboost_identities, faults.mapping)
        refs == Ordered(witboost_identities, RefOrder)
        errors == mapping_errors(refs, mapped_principals)
        successful_mappings ==
            {mapped_principals.results[ref].value :
                 ref \in {x \in witboost_identities :
                              mapped_principals.results[x].kind = "identity"}}
        current_permissions == retrieve_databricks_permissions(gs, faults.retrieve)
        revoked == revoke_removed(start, current_permissions.value,
                                  preserved(environment, principals.value),
                                  successful_mappings, faults.update)
        granted == grant_desired(Progress(revoked.grants, revoked.calls, <<>>),
                                 Ordered(successful_mappings, PrincipalOrder), faults.update)
    IN  IF principals.type = "raise" THEN failed(start, principals.exc)
        ELSE IF errors # <<>>
        THEN failed(start,
                    ProvisioningError([i \in 1..Len(errors) |->
                        build_error_message_from_chained_exception(
                            mapping_chain(errors[i], mapped_principals.results[errors[i]],
                                          faults.mapping))]))
        ELSE IF current_permissions.type = "raise" THEN failed(start, current_permissions.exc)
        ELSE IF revoked.errors # <<>> THEN failed(revoked, ProvisioningError(revoked.errors))
        ELSE IF granted.errors # <<>> THEN failed(granted, ProvisioningError(granted.errors))
        ELSE Updated(granted.grants, granted.calls, Return(<<>>))

-----------------------------------------------------------------------------
(* The view's state machine: the grants, the request in flight and how its
   last execution ended *)

NoFaults == [mapping |-> {}, retrieve |-> FALSE, update |-> {}]

NoAcl == [phase |-> "none", environment |-> "none", identities |-> {}, repeats |-> FALSE,
          known |-> FALSE,
          faults |-> NoFaults, before |-> {}, calls |-> <<>>, outcome |-> Return(<<>>),
          status |-> "none", result |-> <<>>]

AclInit == grants = {} /\ acl = NoAcl

\* the grant changes a request issues when nothing fails
planned(gs, groups, environment, witboost_identities) ==
    LET made == update_acl(gs, groups, environment, witboost_identities, NoFaults).calls
    IN  {[principal |-> made[i].principal, privilege |-> made[i].privilege] :
             i \in 1..Len(made)}

\* the grant changes the platform refuses in one request: those of one
\* privilege, for one of the principals or for all of them
refused(changes) ==
    {{c \in changes : c.privilege = privilege /\ c.principal \in principals} :
         privilege \in {c.privilege : c \in changes},
         principals \in {{c.principal : c \in changes}} \cup {{c.principal} : c \in changes}}
        \ {{}}

\* what can fail in one request: the lookup of the dev group, the listing of
\* the grants, or some of the grant changes
AclFaults(gs, groups, environment, witboost_identities) ==
    {NoFaults, [NoFaults EXCEPT !.mapping = {DevGroupRef}], [NoFaults EXCEPT !.retrieve = TRUE]}
        \cup {[NoFaults EXCEPT !.update = u] :
                  u \in refused(planned(gs, groups, environment, witboost_identities))}

\* the lists of references a request carries
Identities == SUBSET {Owner, DevGroupRef} \cup {{Owner, OpsGroupRef}}

\* an administrator of the catalog grants a privilege on the view
catalog_admin ==
    /\ \E g \in {Grant(<<"ann">>, "SELECT", "view"), Grant(<<"bob">>, "SELECT", "view"),
                 Grant(<<"bob">>, "ALL_PRIVILEGES", "view")} :
           /\ Cardinality({h \in grants : h.object = "view"}) < MaxGrants
           /\ g \notin grants
           /\ grants' = grants \cup {g}
    /\ acl' = NoAcl
    /\ UNCHANGED <<orchVars, wsVars, mapVars, wfVars, azVars, laterVars>>

\* an administrator of the Databricks account adds a group named as the dev
\* group of the data product, in the account's own letter case
account_admin ==
    /\ \E name \in {"Dev"} :
           /\ Len(account_groups) < MaxGroups
           /\ account_groups' = Append(account_groups, name)
    /\ acl' = NoAcl
    /\ UNCHANGED <<grants, tenant_groups, tenant_users, results, orchVars, wsVars, wfVars, azVars,
                   laterVars>>

\* main.updateacl: a request arrives with its data product and its references
receive(environment, witboost_identities) ==
    /\ acl' = [NoAcl EXCEPT !.phase = "received", !.environment = environment,
                            !.identities = witboost_identities]
    /\ UNCHANGED <<grants, orchVars, wsVars, mapVars, wfVars, azVars, laterVars>>

\* UpdateAclService.update_acl for the output port of the request in flight,
\* executed once or once more: the terminal boundary, which turns the exception
\* into a FAILED status
updateacl(known, faults) ==
    \E r \in {IF known
              THEN update_acl(grants, account_groups, acl.environment, acl.identities, faults)
              ELSE Updated(grants, <<>>, Return(<<>>))} :
        /\ acl.phase # "none"
        /\ grants' = r.grants
        /\ acl' = [phase |-> "done", environment |-> acl.environment,
                   identities |-> acl.identities,
                   repeats |-> acl.phase = "done" /\ acl.status = "COMPLETED",
                   known |-> known, faults |-> faults, before |-> grants,
                   calls |-> r.calls, outcome |-> r.outcome,
                   status |-> IF known /\ r.outcome.type = "return" THEN "COMPLETED"
                              ELSE "FAILED",
                   result |-> IF ~known
                              THEN <<"Update Acl failed: Unable to retrieve info for workspace">>
                              ELSE IF r.outcome.type = "return"
                              THEN <<"Update of Acl completed!">>
                              ELSE build_error_message_from_chained_exception(
                                       r.outcome.exc.chain)]
        /\ UNCHANGED <<orchVars, wsVars, mapVars, wfVars, azVars, laterVars>>

NextAcl ==
    \/ catalog_admin
    \/ account_admin
    \/ \E environment \in Environments, witboost_identities \in Identities :
           receive(environment, witboost_identities)
    \/ updateacl(FALSE, NoFaults)
    \/ \E faults \in AclFaults(grants, account_groups, acl.environment, acl.identities) :
           updateacl(TRUE, faults)

-----------------------------------------------------------------------------
(* Workflows: the definitions, the drift validation and the redeploy.  Every
   field of a definition is a string, "None" standing for Python's None; the
   tasks are a sequence, empty when the settings carry none. *)

Absent == "None"

\* databricks.sdk Job and JobSettings, with the fields the adapter reads or sets
Job(created_time, creator_user_name, job_id, run_as_user_name, settings) ==
    [created_time |-> created_time, creator_user_name |-> creator_user_name,
     job_id |-> job_id, run_as_user_name |-> run_as_user_name, settings |-> settings]

JobSettings(name, email, webhook, format, timeout_seconds, concurrent, run_as, tasks) ==
    [name |-> name, email_notifications |-> email, webhook_notifications |-> webhook,
     format |-> format, timeout_seconds |-> timeout_seconds,
     max_concurrent_runs |-> concurrent, run_as |-> run_as, tasks |-> tasks]

\* databricks.sdk Task: pipeline_task.pipeline_id, run_job_task.job_id,
\* notebook_task and its warehouse_id, existing_cluster_id
Task(task_key, pipeline_id, job_id, notebook_task, warehouse_id, existing_cluster_id) ==
    [task_key |-> task_key, pipeline_id |-> pipeline_id, job_id |-> job_id,
     notebook_task |-> notebook_task, warehouse_id |-> warehouse_id,
     existing_cluster_id |-> existing_cluster_id]

\* WorkflowTasksInfo
WorkflowTasksInfo(task_key, task_type, task_name, cluster_name) ==
    [task_key |-> task_key, referenced_task_type |-> task_type,
     referenced_task_name |-> task_name, referenced_cluster_name |-> cluster_name]

\* the names of the workspace's jobs, as JobManager lists them
names_of(ws) == [id \in DOMAIN ws |-> ws[id].settings.name]

\* a variant that leaves the identifier of the request as it came
aligned_but_for_id(workflow, existing_workflow) ==
    [workflow EXCEPT !.created_time = existing_workflow.created_time,
                     !.creator_user_name = existing_workflow.creator_user_name,
                     !.run_as_user_name = existing_workflow.run_as_user_name]

\* validate_workflow_for_provisioning: the request with the fields Databricks
\* sets taken from the existing workflow
aligned(workflow, existing_workflow) ==
    [workflow EXCEPT !.created_time = existing_workflow.created_time,
                     !.creator_user_name = existing_workflow.creator_user_name,
                     !.job_id = existing_workflow.job_id,
                     !.run_as_user_name = existing_workflow.run_as_user_name]

\* a variant whose skeleton carries tasks
skeleton_with_tasks(request_workflow, workflow_name, existing_workflow) ==
    Job(request_workflow.created_time, request_workflow.creator_user_name,
        request_workflow.job_id, request_workflow.run_as_user_name,
        JobSettings(workflow_name, "JobEmailNotifications()", "WebhookNotifications()",
                    "MULTI_TASK", "0", "1", existing_workflow.settings.run_as,
                    existing_workflow.settings.tasks))

\* validate_workflow_for_provisioning: empty_workflow_to_compare
empty_workflow_to_compare(request_workflow, workflow_name, existing_workflow) ==
    Job(request_workflow.created_time, request_workflow.creator_user_name,
        request_workflow.job_id, request_workflow.run_as_user_name,
        JobSettings(workflow_name, "JobEmailNotifications()", "WebhookNotifications()",
                    "MULTI_TASK", "0", "1", existing_workflow.settings.run_as, <<>>))

\* a variant that takes every environment but the development one for it
is_not_development(environment) ==
    lower(environment) # lower(development_environment_name)

\* environment.lower() == settings.misc.development_environment_name.lower()
is_development(environment) ==
    lower(environment) = lower(development_environment_name)

\* what the validation leaves behind: the SDK calls, how it ended, and the
\* request's workflow, which it changes in place
Validated(made, outcome, workflow) ==
    [calls |-> made, outcome |-> outcome, workflow |-> workflow]

\* validate_workflow_for_provisioning; faults names the SDK calls that fail
validate_workflow_for_provisioning(ws, workflow, override, environment, faults) ==
    LET workflow_name == workflow.settings.name
        listing == list_jobs_with_given_name(names_of(ws), workflow_name, faults.list)
        workflow_list == listing.outcome.value
        existing_workflow == ws[workflow_list[1]]
        made == listing.calls \o <<Call("jobs.get", workflow_list[1])>>
        request_workflow == aligned(workflow, existing_workflow)
        failed(text) == Throw(ProvisioningError(<<text>>))
    IN  IF workflow_name = ""
        THEN Validated(<<>>, failed(<<"Error, received empty specificworkflow.settings.name">>),
                       workflow)
        ELSE IF listing.outcome.type = "raise"
        THEN Validated(listing.calls, listing.outcome, workflow)
        ELSE IF workflow_list = <<>> THEN Validated(listing.calls, Return(<<>>), workflow)
        ELSE IF Len(workflow_list) > 1
        THEN Validated(listing.calls,
                       failed(<<"Found more than one workflow named", workflow_name>>),
                       workflow)
        ELSE IF faults.get
        THEN Validated(made, Throw(SdkError("jobs.get", workflow_list[1])), workflow)
        ELSE IF existing_workflow # request_workflow
        THEN IF override THEN Validated(made, Return(<<>>), request_workflow)
             ELSE IF is_development(environment)
             THEN Validated(made,
                            failed(<<"The request workflow", workflow_name,
                                     "is different from that on Databricks.",
                                     "Kindly perform reverse provisioning and try again.">>),
                            request_workflow)
             ELSE IF request_workflow
                         = empty_workflow_to_compare(request_workflow, workflow_name,
                                                     existing_workflow)
             THEN Validated(made,
                            failed(<<"It is not permitted to replace a NON-empty workflow",
                                     workflow_name, "with an empty one.",
                                     "Kindly perform reverse provisioning and try again.">>),
                            request_workflow)
             ELSE Validated(made, Return(<<>>), request_workflow)
        ELSE Validated(made, Return(<<>>), request_workflow)

\* what a lookup leaves behind: the SDK calls it made and how it ended
Resolved(made, outcome) == [calls |-> made, outcome |-> outcome]

\* str(job_id), str(pipeline_id)
id_str(id) == ToString(id)

\* JobManager.retrieve_job_id_from_name
retrieve_job_id_from_name(js, job_name, fault) ==
    LET listing == list_jobs_with_given_name(js, job_name, fault)
        found_jobs == listing.outcome.value
    IN  IF listing.outcome.type = "raise" THEN Resolved(listing.calls, listing.outcome)
        ELSE IF found_jobs = <<>>
        THEN Resolved(listing.calls,
                      Throw(Exc("JobManagerError", << <<"No job found with name", job_name>> >>)))
        ELSE IF Len(found_jobs) > 1
        THEN Resolved(listing.calls,
                      Throw(Exc("JobManagerError",
                                << <<"More than one job found with name", job_name>> >>)))
        ELSE Resolved(listing.calls, Return(<<id_str(found_jobs[1])>>))

\* DLTManager.retrieve_pipeline_id_from_name
retrieve_pipeline_id_from_name(ps, pipeline_name, fault) ==
    LET listing == list_pipelines_with_given_name(ps, pipeline_name, fault)
        pipeline_list == listing.outcome.value
    IN  IF listing.outcome.type = "raise" THEN Resolved(listing.calls, listing.outcome)
        ELSE IF pipeline_list = <<>>
        THEN Resolved(listing.calls,
                      Throw(Exc("DLTManagerError",
                                << <<"An error occurred while searching pipeline",
                                     pipeline_name, "no DLT found with that name.">> >>)))
        ELSE IF Len(pipeline_list) > 1
        THEN Resolved(listing.calls,
                      Throw(Exc("DLTManagerError",
                                << <<"An error occurred while searching pipeline",
                                     pipeline_name, "more than 1 DLT found with that name.">> >>)))
        ELSE Resolved(listing.calls, Return(<<id_str(pipeline_list[1])>>))

\* the positions of a listing whose name is the one looked for, whatever the letter case
named(listing, name) == {i \in 1..Len(listing) : lower(listing[i]) = lower(name)}

\* the first entity of that name in the listing
first_named(listing, name) ==
    CHOOSE i \in named(listing, name) : \A j \in named(listing, name) : i <= j

\* the loop over a listing that returns at the first match: the id, or the
\* error raised after the loop and wrapped by the except clause around it
first_id_from_name(api, prefix, kind, listing, name, fault) ==
    LET wrapped(e) == RaiseFrom("DatabricksWorkspaceManagerError",
                                <<"Failed to list", kind, ":">> \o message(e), e)
    IN  IF fault THEN Resolved(<<Call(api, NoId)>>, wrapped(SdkError(api, NoId)))
        ELSE IF named(listing, name) = {}
        THEN Resolved(<<Call(api, NoId)>>,
                      wrapped(Exc("DatabricksWorkspaceManagerError",
                                  << <<kind, name, "not found in workspace">> >>)))
        ELSE Resolved(<<Call(api, NoId)>>,
                      Return(<<prefix \o ToString(first_named(listing, name))>>))

\* WorkspaceManager.get_sql_warehouse_id_from_name
get_sql_warehouse_id_from_name(warehouses, sql_warehouse_name, fault) ==
    first_id_from_name("warehouses.list", "w", "SQL warehouses", warehouses,
                       sql_warehouse_name, fault)

\* WorkspaceManager.get_compute_cluster_id_from_name
get_compute_cluster_id_from_name(clusters, cluster_name, fault) ==
    first_id_from_name("clusters.list", "c", "compute clusters", clusters, cluster_name, fault)

\* WorkspaceManager.get_service_principal_from_name: the application id of the
\* first service principal of that display name, or nothing
get_service_principal_from_name(service_principals, principal_name, fault) ==
    IF fault
    THEN Resolved(<<Call("service_principals.list", NoId)>>,
                  RaiseFrom("DatabricksWorkspaceManagerError",
                            <<"Error getting info for service principal", principal_name>>,
                            SdkError("service_principals.list", NoId)))
    ELSE IF named(service_principals, principal_name) = {}
    THEN Resolved(<<Call("service_principals.list", NoId)>>, Return(<<>>))
    ELSE Resolved(<<Call("service_principals.list", NoId)>>,
                  Return(<<"app" \o ToString(first_named(service_principals, principal_name))>>))

\* the entities of a workspace a task can refer to
Entities(ps, js, warehouses, clusters) ==
    [pipelines |-> ps, jobs |-> js, warehouses |-> warehouses, clusters |-> clusters]

empty_name(wf_info) ==
    Resolved(<<>>, Throw(Exc("WorkflowManagerError",
                             << <<"Error, cannot construct task, received empty name",
                                  wf_info.task_key>> >>)))

\* setting a field of a part of the task the task does not have
attribute_error(task) ==
    Throw(Exc("AttributeError", << <<"'NoneType' object has no attribute", task.task_key>> >>))

\* the task with the id the lookup gave in this field; has_part tells whether
\* the task has the part the field belongs to
with_id(task, field, has_part, looked) ==
    IF looked.outcome.type = "raise" THEN looked
    ELSE IF ~has_part THEN Resolved(looked.calls, attribute_error(task))
    ELSE Resolved(looked.calls, Return(<<[task EXCEPT ![field] = looked.outcome.value[1]]>>))

\* a variant that keeps the ids the tasks came with
keep_task(entities, wf_info, task, fault) == Resolved(<<>>, Return(<<task>>))

\* WorkflowManager.create_task_from_workflow_task_info
create_task_from_workflow_task_info(entities, wf_info, task, fault) ==
    IF wf_info.referenced_task_type = "pipeline"
    THEN IF wf_info.referenced_task_name = Absent THEN empty_name(wf_info)
         ELSE with_id(task, "pipeline_id", task.pipeline_id # Absent,
                      retrieve_pipeline_id_from_name(entities.pipelines,
                                                     wf_info.referenced_task_name, fault))
    ELSE IF wf_info.referenced_task_type = "job"
    THEN IF wf_info.referenced_task_name = Absent THEN empty_name(wf_info)
         ELSE with_id(task, "job_id", task.job_id # Absent,
                      retrieve_job_id_from_name(entities.jobs, wf_info.referenced_task_name,
                                                fault))
    ELSE IF wf_info.referenced_task_type = "notebook_warehouse"
    THEN IF wf_info.referenced_cluster_name = Absent THEN empty_name(wf_info)
         ELSE with_id(task, "warehouse_id", task.notebook_task # Absent,
                      get_sql_warehouse_id_from_name(entities.warehouses,
                                                     wf_info.referenced_cluster_name, fault))
    ELSE IF wf_info.referenced_task_type = "notebook_compute"
    THEN IF wf_info.referenced_cluster_name = Absent THEN empty_name(wf_info)
         ELSE with_id(task, "existing_cluster_id", TRUE,
                      get_compute_cluster_id_from_name(entities.clusters,
                                                       wf_info.referenced_cluster_name, fault))
    ELSE Resolved(<<>>, Return(<<task>>))

\* {info.task_key: info for info in workflow_info_list}: the last entry of a key
info_map(workflow_info_list) ==
    [key \in {workflow_info_list[i].task_key : i \in 1..Len(workflow_info_list)} |->
         workflow_info_list[CHOOSE i \in 1..Len(workflow_info_list) :
                                /\ workflow_info_list[i].task_key = key
                                /\ \A j \in (i + 1)..Len(workflow_info_list) :
                                       workflow_info_list[j].task_key # key]]

\* reconstruct_job_with_correct_ids: one pass of the loop over the tasks
updated_task(entities, task, infos, fault) ==
    IF task.task_key \in DOMAIN infos
    THEN create_task_from_workflow_task_info(entities, infos[task.task_key], task, fault)
    ELSE Resolved(<<>>, Return(<<task>>))

\* the loop after one pass and the passes that follow it: the first exception
\* leaves the loop
passes(first, rest) ==
    IF first.outcome.type = "raise" THEN first
    ELSE IF rest.outcome.type = "raise" THEN Resolved(first.calls \o rest.calls, rest.outcome)
    ELSE Resolved(first.calls \o rest.calls,
                  Return(first.outcome.value \o rest.outcome.value))

\* reconstruct_job_with_correct_ids: the loop over the tasks
RECURSIVE updated_tasks(_, _, _, _)
updated_tasks(entities, tasks, infos, fault) ==
    IF tasks = <<>> THEN Resolved(<<>>, Return(<<>>))
    ELSE passes(updated_task(entities, Head(tasks), infos, fault),
                updated_tasks(entities, Tail(tasks), infos, fault))

\* the job with the tasks the loop gave, or the exception that left the loop
with_tasks(original_job, updated) ==
    IF updated.outcome.type = "raise" THEN updated
    ELSE Resolved(updated.calls,
                  Return(<<[original_job EXCEPT !.settings.tasks = updated.outcome.value]>>))

\* WorkflowManager.reconstruct_job_with_correct_ids: the job, or the exception
reconstruct_job_with_correct_ids(entities, original_job, workflow_info_list, fault) ==
    IF original_job.settings.tasks = <<>> THEN Resolved(<<>>, Return(<<original_job>>))
    ELSE with_tasks(original_job,
                    updated_tasks(entities, original_job.settings.tasks,
                                  info_map(workflow_info_list), fault))

\* DatabricksWorkflowWorkloadSpecific
Specific(workflow, workflow_tasks_info, override, runAsPrincipalName) ==
    [workflow |-> workflow, workflow_tasks_info |-> workflow_tasks_info,
     override |-> override, runAsPrincipalName |-> runAsPrincipalName]

isspace(s) == s = " "

\* what a deployment leaves behind: the SDK calls, how it ended, the workflows
\* of the workspace and the settings handed to jobs.create or jobs.reset
Deployed(made, outcome, ws, sent) ==
    [calls |-> made, outcome |-> outcome, resources |-> ws, sent |-> sent]

\* the workspace after jobs.create or jobs.reset of these settings gave this id
written(ws, id, settings) ==
    IF id \in DOMAIN ws THEN [ws EXCEPT ![id].settings = settings]
    ELSE ws @@ (id :> Job("created", "adapter", id_str(id), "adapter", settings))

\* _provision_workflow_internal: the workflow with the run_as that is deployed
with_run_as(updated_workflow, specific, service_principal) ==
    IF specific.runAsPrincipalName # Absent /\ ~isspace(specific.runAsPrincipalName)
    THEN [updated_workflow EXCEPT !.settings.run_as = service_principal[1]]
    ELSE updated_workflow

\* except Exception as e: raise ProvisioningError([...]) from e
creating_failed(e) ==
    RaiseFrom("ProvisioningError",
              <<"An error occurred while creating the new Databricks workflow">>, e)

\* whether a call of the manager reached jobs.create or jobs.reset
issued(made) == \E i \in 1..Len(made) : made[i].api \in {"jobs.create", "jobs.reset"}

\* _provision_workflow_internal, from the return of create_or_update_workflow
created_or_updated(ws, looked, job, write) ==
    IF write.outcome.type = "raise"
    THEN Deployed(looked \o write.calls, creating_failed(write.outcome.exc), ws,
                  IF issued(write.calls) THEN <<job.settings>> ELSE <<>>)
    ELSE Deployed(looked \o write.calls, write.outcome,
                  written(ws, write.outcome.value[1], job.settings), <<job.settings>>)

\* _provision_workflow_internal, from the call of create_or_update_workflow
create_or_update(ws, looked, job, faults) ==
    created_or_updated(ws, looked, job,
                       create_or_update_workflow(names_of(ws), job.settings.name, faults))

\* whether specific.runAsPrincipalName names a principal
run_as_configured(specific) ==
    specific.runAsPrincipalName # Absent /\ ~isspace(specific.runAsPrincipalName)

\* _provision_workflow_internal, from the lookup of the run-as principal
run_as_resolved(ws, specific, faults, reconstructed, service_principal) ==
    IF service_principal.outcome.type = "raise"
    THEN Deployed(reconstructed.calls \o service_principal.calls,
                  creating_failed(service_principal.outcome.exc), ws, <<>>)
    ELSE IF run_as_configured(specific) /\ service_principal.outcome.value = <<>>
    THEN Deployed(reconstructed.calls \o service_principal.calls,
                  Throw(ProvisioningError(<< <<"Run As Service Principal",
                                               specific.runAsPrincipalName,
                                               "doesn't exist on target workspace">> >>)),
                  ws, <<>>)
    ELSE create_or_update(ws, reconstructed.calls \o service_principal.calls,
                          with_run_as(reconstructed.outcome.value[1], specific,
                                      service_principal.outcome.value),
                          faults)

\* _provision_workflow_internal, from the return of reconstruct_job_with_correct_ids
reconstructed_job(ws, platform, specific, faults, reconstructed) ==
    IF reconstructed.outcome.type = "raise"
    THEN Deployed(reconstructed.calls, creating_failed(reconstructed.outcome.exc), ws, <<>>)
    ELSE run_as_resolved(ws, specific, faults, reconstructed,
                         IF run_as_configured(specific)
                         THEN get_service_principal_from_name(platform.service_principals,
                                                              specific.runAsPrincipalName,
                                                              faults.principal)
                         ELSE Resolved(<<>>, Return(<<>>)))

\* WorkflowWorkloadHandler._provision_workflow_internal
provision_workflow_internal(ws, platform, specific, faults) ==
    reconstructed_job(ws, platform, specific, faults,
                      reconstruct_job_with_correct_ids(
                          Entities(platform.pipelines, names_of(ws), platform.warehouses,
                                   platform.clusters),
                          specific.workflow, specific.workflow_tasks_info, faults.lookup))

\* a step of provision_workflow outside the workflow itself failed
step_failed(made, resources, sent) ==
    Deployed(made,
             RaiseFrom("ProvisioningError",
                       <<"An error occurred while provisioning component">>,
                       Exc("Exception", << <<"step failed">> >>)),
             resources, sent)

\* provision_workflow, from the return of _provision_workflow_internal
job_permissions(faults, internal) ==
    IF internal.outcome.type = "raise" THEN internal
    ELSE IF faults.after THEN step_failed(internal.calls, internal.resources, internal.sent)
    ELSE internal

\* WorkflowWorkloadHandler.provision_workflow.  The mapping of the principals
\* and the repository come before the workflow and the job permissions after
\* it; of these steps the model keeps that each of them can fail.
provision_workflow(ws, platform, specific, faults) ==
    IF faults.before THEN step_failed(<<>>, ws, <<>>)
    ELSE job_permissions(faults, provision_workflow_internal(ws, platform, specific, faults))

\* what the task leaves behind: the validation's SDK calls and outcome before
\* those of the handler
Provisioned(validation, handled) ==
    [validation |-> validation.outcome, calls |-> validation.calls \o handled.calls,
     outcome |-> handled.outcome, resources |-> handled.resources, sent |-> handled.sent]

\* _provision_workflow, from the return of the validation: the handler works
\* on the workflow the validation has aligned
validated_workflow(ws, platform, specific, faults, validation) ==
    IF validation.outcome.type = "raise"
    THEN Provisioned(validation, Deployed(<<>>, validation.outcome, ws, <<>>))
    ELSE Provisioned(validation,
                     provision_workflow(ws, platform,
                                        [specific EXCEPT !.workflow = validation.workflow],
                                        faults))

\* ProvisionService._provision_workflow: the validation, then the handler
provision_workflow_task(ws, platform, specific, environment, faults) ==
    validated_workflow(ws, platform, specific, faults,
                       validate_workflow_for_provisioning(ws, specific.workflow,
                                                          specific.override, environment,
                                                          faults))

-----------------------------------------------------------------------------
(* The workflows' state machine: the workspace and the last workflow task *)

WorkflowName == "wf"

NoWfFaults == [list |-> FALSE, get |-> FALSE, lookup |-> FALSE, principal |-> FALSE,
               write |-> FALSE, before |-> FALSE, after |-> FALSE]

\* one of these SDK calls or steps of the handler fails, or none
FailingOneOf(steps) == {NoWfFaults} \cup {[NoWfFaults EXCEPT ![f] = TRUE] : f \in steps}

\* the ids Databricks gives to the jobs of the workspace
JobIds == {1, 2}

NoPlatform == [pipelines |-> <<>>, warehouses |-> <<>>, clusters |-> <<>>,
               service_principals |-> <<>>]

NoDeploy == [phase |-> "none", specific |-> Specific(Absent, <<>>, FALSE, Absent),
             environment |-> "none", faults |-> NoWfFaults, before |-> <<>>,
             validation |-> Return(<<>>), calls |-> <<>>, outcome |-> Return(<<>>),
             sent |-> <<>>]

WfInit == workflows = <<>> /\ compute = NoPlatform /\ deploy = NoDeploy

\* the settings of a workflow with every field at the default of the skeleton
Skeleton(name, run_as, tasks) ==
    JobSettings(name, "JobEmailNotifications()", "WebhookNotifications()", "MULTI_TASK",
                "0", "1", run_as, tasks)

PlainTask(task_key) == Task(task_key, Absent, Absent, "NotebookTask", Absent, Absent)

\* the settings a request or a deployed workflow carries, as to the drift
DriftSettings ==
    {Skeleton(WorkflowName, run_as, tasks) :
         run_as \in {Absent, "app1"}, tasks \in {<<>>, <<PlainTask("t1")>>}}
        \cup {JobSettings(WorkflowName, Absent, Absent, "SINGLE_TASK", Absent, Absent,
                          Absent, <<>>)}

\* a request as the descriptor carries it, or as it was captured elsewhere
DriftRequests ==
    {Specific(Job(stamp, stamp, stamp, stamp, settings), <<>>, override, Absent) :
         stamp \in {"captured"}, settings \in DriftSettings, override \in BOOLEAN}

\* the calls and steps of a task whose workflow refers to nothing by name
DriftFaults == FailingOneOf({"list", "get", "write", "before", "after"})

\* someone deploys a workflow of that name in the workspace
workflow_author ==
    /\ NewId(workflows) \in JobIds
    /\ \E settings \in DriftSettings :
           workflows' = workflows @@ (NewId(workflows) :>
                            Job("created", "author", id_str(NewId(workflows)), "author",
                                settings))
    /\ deploy' = IF deploy.phase = "received" THEN deploy ELSE NoDeploy
    /\ UNCHANGED <<compute, orchVars, wsVars, mapVars, aclVars, azVars, laterVars>>

\* ProvisionService.provision: the request for a workflow is accepted and its
\* task is scheduled
receive_workflow(specific, environment) ==
    /\ deploy' = [NoDeploy EXCEPT !.phase = "received", !.specific = specific,
                                  !.environment = environment]
    /\ UNCHANGED <<workflows, compute, orchVars, wsVars, mapVars, aclVars, azVars, laterVars>>

\* ProvisionService._provision_workflow, as the task of the request executes it
provision_workflow_request(faults) ==
    /\ deploy.phase = "received"
    /\ \E r \in {provision_workflow_task(workflows, compute, deploy.specific,
                                          deploy.environment, faults)} :
           /\ workflows' = r.resources
           /\ deploy' = [deploy EXCEPT !.phase = "done", !.faults = faults,
                                       !.before = workflows, !.validation = r.validation,
                                       !.calls = r.calls, !.outcome = r.outcome,
                                       !.sent = r.sent]
    /\ UNCHANGED <<compute, orchVars, wsVars, mapVars, aclVars, azVars, laterVars>>

NextDrift ==
    \/ workflow_author
    \/ \E specific \in DriftRequests, environment \in Environments :
           receive_workflow(specific, environment)
    \/ \E faults \in DriftFaults : provision_workflow_request(faults)

\* the tasks of a captured workflow, with the ids of the workspace they were captured in
PipelineTask == Task("t1", "p0", Absent, Absent, Absent, Absent)

RunJobTask == Task("t2", Absent, "j0", Absent, Absent, Absent)

WarehouseTask == Task("t3", Absent, Absent, "NotebookTask", "w0", Absent)

ClusterTask == Task("t4", Absent, Absent, "NotebookTask", Absent, "c0")

\* the names the tasks' entities have in every workspace
PipelineInfo == WorkflowTasksInfo("t1", "pipeline", "p", Absent)

RunJobInfo == WorkflowTasksInfo("t2", "job", "a", Absent)

WarehouseInfo == WorkflowTasksInfo("t3", "notebook_warehouse", Absent, "w")

ClusterInfo == WorkflowTasksInfo("t4", "notebook_compute", Absent, "c")

\* the captured workflows with their WorkflowTasksInfo lists
Captured ==
    {<< <<PipelineTask, PlainTask("t5")>>, <<PipelineInfo>> >>,
     << <<PlainTask("t5"), RunJobTask>>, <<RunJobInfo>> >>,
     << <<WarehouseTask>>, <<WarehouseInfo>> >>,
     << <<ClusterTask, PipelineTask>>, <<PipelineInfo, ClusterInfo>> >>,
     << <<PipelineTask>>, <<>> >>}

\* a captured workflow redeployed into this workspace, with or without a
\* run-as principal configured for the environment
RedeployRequests ==
    {Specific(Job("captured", "captured", "captured", "captured",
                  Skeleton(WorkflowName, "captured_sp", c[1])),
              c[2], TRUE, runAsPrincipalName) :
         c \in Captured, runAsPrincipalName \in {Absent, "sp"}}

RedeployFaults == FailingOneOf(DOMAIN NoWfFaults)

\* the name under which the workspace's admin creates an entity of each kind
EntityName == [pipelines |-> "p", warehouses |-> "w", clusters |-> "c",
               service_principals |-> "sp"]

\* the entities of the workspace the tasks and the run-as can refer to
referable ==
    Len(compute.pipelines) + Len(compute.warehouses) + Len(compute.clusters)
        + Len(compute.service_principals)
        + Cardinality({id \in DOMAIN workflows : workflows[id].settings.name = "a"})

\* the workspace's admin creates a pipeline, a warehouse, a cluster, a service
\* principal or a job
workspace_admin ==
    /\ referable < MaxResources
    /\ \/ /\ \E kind \in DOMAIN EntityName :
                 compute' = [compute EXCEPT ![kind] = Append(@, EntityName[kind])]
          /\ UNCHANGED workflows
       \/ /\ workflows' = workflows @@ (NewId(workflows) :>
                              Job("created", "admin", id_str(NewId(workflows)), "admin",
                                  Skeleton("a", Absent, <<>>)))
          /\ UNCHANGED compute
    /\ deploy' = IF deploy.phase = "received" THEN deploy ELSE NoDeploy
    /\ UNCHANGED <<orchVars, wsVars, mapVars, aclVars, azVars, laterVars>>

NextRedeploy ==
    \/ workspace_admin
    \/ \E specific \in RedeployRequests : receive_workflow(specific, "production")
    \/ \E faults \in RedeployFaults : provision_workflow_request(faults)

-----------------------------------------------------------------------------
(* The workspace of a component: AzureWorkspaceHandler.  A workspace
   reference is a string, a sequence of tokens; Azure holds the managed
   workspaces by name, with their provisioning state, and the roles assigned
   on them. *)

\* the tokens \d+ matches
Digits == {"1234", "5"}

\* a variant that takes no reference for a URL
match_nothing(workspace_identifier) == <<>>

\* _DATABRICKS_URL_PATTERN.match(workspace_identifier), for the pattern
\* (?:https://)?adb-(\d+)\.\d+\.azuredatabricks\.net : group 1, or nothing
DATABRICKS_URL_PATTERN_match(workspace_identifier) ==
    LET rest == IF workspace_identifier # <<>> /\ Head(workspace_identifier) = "https://"
                THEN Tail(workspace_identifier) ELSE workspace_identifier
    IN  IF /\ Len(rest) >= 5
           /\ rest[1] = "adb-" /\ rest[2] \in Digits /\ rest[3] = "."
           /\ rest[4] \in Digits /\ rest[5] = ".azuredatabricks.net"
        THEN <<rest[2]>>
        ELSE <<>>

\* DatabricksWorkspaceInfo
DatabricksWorkspaceInfo(name, id, databricks_host, provisioning_state, is_managed) ==
    [name |-> name, id |-> id, databricks_host |-> databricks_host,
     provisioning_state |-> provisioning_state, is_managed |-> is_managed]

\* DatabricksWorkspaceInfo.build_unmanaged
build_unmanaged(databricks_host, id, provisioning_state) ==
    DatabricksWorkspaceInfo(databricks_host, id, databricks_host, provisioning_state, FALSE)

\* AzureWorkspaceManager builds the info of a managed workspace from what Azure returns
build_managed(name, provisioning_state) ==
    DatabricksWorkspaceInfo(name, <<"id of">> \o name, <<"host of">> \o name,
                            provisioning_state, TRUE)

WorkspaceHandlerError(text) == Exc("WorkspaceHandlerError", <<text>>)

not_configured ==
    WorkspaceHandlerError(<<"Error, received request workspace is set to be managed,",
                            "but azure.permissions is not configured on Tech Adapter">>)

\* what a step of the handler leaves behind: the calls to Azure, how it ended
\* and Azure afterwards
Stepped(made, outcome, az) == [calls |-> made, outcome |-> outcome, azure |-> az]

\* AzureWorkspaceManager.get_workspace
get_workspace(az, workspace_name, fault) ==
    IF fault
    THEN Stepped(<<Call("get_workspace", workspace_name)>>,
                 Throw(Exc("AzureWorkspaceManagerError", << <<"get_workspace failed">> >>)), az)
    ELSE IF workspace_name \in DOMAIN az.workspaces
    THEN Stepped(<<Call("get_workspace", workspace_name)>>,
                 Return(<<build_managed(workspace_name, az.workspaces[workspace_name])>>), az)
    ELSE Stepped(<<Call("get_workspace", workspace_name)>>, Return(<<>>), az)

\* AzureWorkspaceHandler.get_workspace_info_by_name
get_workspace_info_by_name(az, workspace_identifier, permissions, fault) ==
    LET match == DATABRICKS_URL_PATTERN_match(workspace_identifier)
    IN  IF match # <<>>
        THEN Stepped(<<>>, Return(<<build_unmanaged(workspace_identifier, match, "SUCCEEDED")>>),
                     az)
        ELSE IF ~permissions.configured THEN Stepped(<<>>, Throw(not_configured), az)
        ELSE get_workspace(az, workspace_identifier, fault)

\* AzureWorkspaceHandler._create_if_not_exists_databricks_workspace
create_if_not_exists_databricks_workspace(az, workspace_name, fault) ==
    LET call == Call("create_if_not_exists_workspace", workspace_name)
        created == IF workspace_name \in DOMAIN az.workspaces THEN az
                   ELSE [az EXCEPT !.workspaces = @ @@ (workspace_name :> "SUCCEEDED")]
    IN  IF fault
        THEN Stepped(<<call>>,
                     RaiseFrom("WorkspaceHandlerError",
                               <<"An error occurred while creating workspace for component">>,
                               Exc("AzureWorkspaceManagerError", << <<"create failed">> >>)), az)
        ELSE Stepped(<<call>>,
                     Return(<<build_managed(workspace_name, created.workspaces[workspace_name])>>),
                     created)

\* the role definitions of the subscription, in the order Azure lists them
RoleOrder == <<"role", "reader", "contributor">>

\* a role assignment that applies to a workspace: its principal, its role,
\* and whether it is made on the workspace itself (its id is under the id of
\* the workspace) or inherited from the resource group
RoleAssignment(workspace, principal, role, scope) ==
    [workspace |-> workspace, principal |-> principal, role |-> role, scope |-> scope]

\* AzurePermissionsManager.get_principal_role_assignments_on_resource
get_principal_role_assignments_on_resource(az, resource_name, principal_id) ==
    {ra \in az.roles : ra.workspace = resource_name /\ ra.principal = principal_id}

\* AzureWorkspaceHandler._handle_no_permissions: every assignment of the
\* principal whose id holds the name of the workspace is deleted
handle_no_permissions(az, workspace_info, entity_id) ==
    LET permissions == get_principal_role_assignments_on_resource(az, workspace_info.name,
                                                                   entity_id)
        on_resource == {ra \in permissions : ra.scope = "workspace"}
        deletions == Ordered({ra.role : ra \in on_resource}, RoleOrder)
    IN  Stepped(<<Call("get_principal_role_assignments_on_resource",
                       <<workspace_info.name, entity_id>>)>>
                    \o [i \in 1..Len(deletions) |->
                            Call("delete_role_assignment",
                                 <<workspace_info.name, entity_id, deletions[i]>>)],
                Return(<<>>), [az EXCEPT !.roles = @ \ on_resource])

\* AzureWorkspaceHandler._assign_permissions_to_entity
assign_permissions_to_entity(az, workspace_info, entity_id, role_definition_id) ==
    Stepped(<<Call("role_assignment", <<workspace_info.name, entity_id>>)>>, Return(<<>>),
            [az EXCEPT !.roles = @ \cup {RoleAssignment(workspace_info.name, entity_id,
                                                         role_definition_id, "workspace")}])

\* a variant that assigns whatever role it is given
manage_azure_permissions_assign(az, workspace_info, entity, role_definition_id, fault) ==
    IF role_definition_id = "" THEN Stepped(<<>>, Return(<<>>), az)
    ELSE assign_permissions_to_entity(az, workspace_info, entity, role_definition_id)

\* AzureWorkspaceHandler._manage_azure_permissions; the fault is one of the
\* mapping of the entity or of the first call to Azure
manage_azure_permissions(az, workspace_info, entity, role_definition_id, fault) ==
    IF role_definition_id = "" THEN Stepped(<<>>, Return(<<>>), az)
    ELSE IF fault
    THEN Stepped(<<Call(IF lower(role_definition_id) = "no_permissions"
                        THEN "get_principal_role_assignments_on_resource"
                        ELSE "role_assignment", <<workspace_info.name, entity>>)>>,
                 RaiseFrom("WorkspaceHandlerError",
                           <<"An error occurred while handling permissions for", entity>>,
                           Exc("AzurePermissionsManagerError", << <<"assignment failed">> >>)),
                 az)
    ELSE IF lower(role_definition_id) = "no_permissions"
    THEN handle_no_permissions(az, workspace_info, entity)
    ELSE assign_permissions_to_entity(az, workspace_info, entity, role_definition_id)

\* AzureWorkspaceHandler.provision_workspace; the value is the one the
\* coroutine resolves to
provision_workspace(az, workspace_identifier, permissions, faults) ==
    LET workspace_info == get_workspace_info_by_name(az, workspace_identifier, permissions,
                                                     faults.lookup)
        new_workspace_info ==
            create_if_not_exists_databricks_workspace(az, workspace_identifier, faults.create)
        owner == manage_azure_permissions(new_workspace_info.azure,
                                          new_workspace_info.outcome.value[1], "owner",
                                          permissions.dp_owner_role_definition_id, faults.owner)
        dev_group == manage_azure_permissions(owner.azure,
                                              new_workspace_info.outcome.value[1], "dev_group",
                                              permissions.dev_group_role_definition_id,
                                              faults.dev_group)
        looked == workspace_info.calls
    IN  IF workspace_info.outcome.type = "raise" THEN workspace_info
        ELSE IF workspace_info.outcome.value # <<>>
                /\ ~workspace_info.outcome.value[1].is_managed
        THEN workspace_info
        ELSE IF ~permissions.configured THEN Stepped(looked, Throw(not_configured), az)
        ELSE IF new_workspace_info.outcome.type = "raise"
        THEN Stepped(looked \o new_workspace_info.calls, new_workspace_info.outcome, az)
        ELSE IF owner.outcome.type = "raise"
        THEN Stepped(looked \o new_workspace_info.calls \o owner.calls, owner.outcome,
                     new_workspace_info.azure)
        ELSE IF dev_group.outcome.type = "raise"
        THEN Stepped(looked \o new_workspace_info.calls \o owner.calls \o dev_group.calls,
                     dev_group.outcome, owner.azure)
        ELSE Stepped(looked \o new_workspace_info.calls \o owner.calls \o dev_group.calls,
                     new_workspace_info.outcome, dev_group.azure)

\* what a task on a job leaves behind: the calls to Azure, the host its
\* workspace client was made for, its status and Azure afterwards
JobTask(made, host, status, error, az) ==
    [calls |-> made, host |-> host, status |-> status, error |-> error, azure |-> az]

NoHost == <<"none">>

\* ProvisionService._handle_workload for a JobWorkload that is provisioned,
\* with the FAILED status _start_provisioning writes for an exception
handle_job_workload(az, workspace_identifier, permissions, faults) ==
    LET resolved == provision_workspace(az, workspace_identifier, permissions, faults)
        workspace_info == resolved.outcome.value[1]
        failed(host, e) == JobTask(resolved.calls, host, "FAILED", e, resolved.azure)
    IN  IF resolved.outcome.type = "raise" THEN failed(NoHost, resolved.outcome.exc)
        ELSE IF workspace_not_ready(workspace_info)
        THEN failed(NoHost, ProvisioningError(<< <<"The status of">> \o workspace_info.name
                                                 \o <<"workspace is different from 'ACTIVE'.">> >>))
        ELSE IF faults.client
        THEN failed(NoHost,
                    WorkspaceHandlerError(<<"Failed to create Databricks workspace client">>))
        ELSE IF faults.handler
        THEN failed(workspace_info.databricks_host,
                    ProvisioningError(<< <<"job handler failed">> >>))
        ELSE JobTask(resolved.calls, workspace_info.databricks_host, "COMPLETED", NoExc,
                     resolved.azure)

-----------------------------------------------------------------------------
(* The workspaces' state machine: Azure and the last task on a job *)

\* specific.workspace of the components: URLs of the platform, and names
UrlReference == <<"https://", "adb-", "1234", ".", "5", ".azuredatabricks.net">>

References ==
    {UrlReference,
     Tail(UrlReference),
     UrlReference \o <<"/jobs">>,
     <<"ws">>,
     <<"https://", "adb-", "1234", ".", "5", ".example.net">>}

\* settings.azure.permissions
PermissionsSettings ==
    {[configured |-> FALSE, dp_owner_role_definition_id |-> "",
      dev_group_role_definition_id |-> ""]}
        \cup [configured : {TRUE}, dp_owner_role_definition_id : {"", "no_permissions"},
              dev_group_role_definition_id : {"role"}]

NoAzFaults == [lookup |-> FALSE, create |-> FALSE, owner |-> FALSE, dev_group |-> FALSE,
               client |-> FALSE, handler |-> FALSE]

AzFaults == {NoAzFaults} \cup {[NoAzFaults EXCEPT ![f] = TRUE] : f \in DOMAIN NoAzFaults}

NoAzure == [workspaces |-> <<>>, roles |-> {}]

NoResolve == [phase |-> "none", reference |-> <<>>, faults |-> NoAzFaults,
              before |-> NoAzure, calls |-> <<>>,
              host |-> NoHost, status |-> "none", error |-> NoExc]

AzInit == azure = NoAzure /\ resolve = NoResolve

\* a workspace of that name is being created outside the adapter
subscription_admin ==
    /\ \E name \in {<<"ws">>} :
           /\ name \notin DOMAIN azure.workspaces
           /\ \E state \in {"SUCCEEDED", "UPDATING"} :
                  azure' = [azure EXCEPT !.workspaces = @ @@ (name :> state)]
    /\ resolve' = NoResolve
    /\ UNCHANGED <<orchVars, wsVars, mapVars, aclVars, wfVars, laterVars>>

\* a provision task on a JobWorkload with this workspace reference
provision_job(workspace_identifier, permissions, faults) ==
    \E r \in {handle_job_workload(azure, workspace_identifier, permissions, faults)} :
        /\ azure' = r.azure
        /\ resolve' = [phase |-> "done", reference |-> workspace_identifier,
                       faults |-> faults, before |-> azure,
                       calls |-> r.calls, host |-> r.host, status |-> r.status,
                       error |-> r.error]
        /\ UNCHANGED <<orchVars, wsVars, mapVars, aclVars, wfVars, laterVars>>

NextAz ==
    \/ subscription_admin
    \/ \E workspace_identifier \in References, permissions \in PermissionsSettings,
          faults \in AzFaults :
           provision_job(workspace_identifier, permissions, faults)

-----------------------------------------------------------------------------
(* One execution of a task: _start_provisioning from the component it is
   given to the status it leaves in the repository.  The handlers are seen
   from outside: each is a call that returns or raises. *)

\* AsyncHandlingError, a subclass of ProvisioningError
AsyncHandlingError ==
    Exc("AsyncHandlingError",
        << <<"Couldn't find task to update. This is due to bad management of async",
             "operations. Please contact the platform team for assistance">> >>)

\* what a call of the repository leaves behind
Stored(map, outcome) == [table |-> map, outcome |-> outcome]

\* a variant that stores a status for an id it does not hold
update_task_upsert(map, idstr, status, result, info) ==
    IF UUID(idstr) = "ValueError"
    THEN Stored(map, Throw(Exc("ValueError", << <<"badly formed hexadecimal UUID string">> >>)))
    ELSE Stored(update_task(IF idstr[2] \in DOMAIN map THEN map ELSE create_task(map, idstr[2]),
                            idstr, status, result, info),
                Return(<<>>))

\* MemoryTaskRepository.update_task
MemoryTaskRepository_update_task(map, idstr, status, result, info) ==
    IF UUID(idstr) = "ValueError"
    THEN Stored(map, Throw(Exc("ValueError", << <<"badly formed hexadecimal UUID string">> >>)))
    ELSE IF idstr[2] \notin DOMAIN map THEN Stored(map, Throw(AsyncHandlingError))
    ELSE Stored(update_task(map, idstr, status, result, info), Return(<<>>))

\* what a stretch of an execution leaves behind: the calls to Azure, to the
\* workspace and to the handlers, the statuses it asked the repository to
\* store, the repository, Azure, the workspace it resolved (if any) and how
\* the stretch ended
Stretch(made, updates, map, az, workspace_info, outcome) ==
    [calls |-> made, updates |-> updates, table |-> map, azure |-> az,
     workspace_info |-> workspace_info, outcome |-> outcome]

\* self.task_repository.update_task(id=task_id, ...) as the last statement of a stretch
updating(made, map, az, workspace_info, task_id, status, result, info) ==
    \* the one call of the repository is used twice below
    LET stored == MemoryTaskRepository_update_task(map, task_id, status, result, info)
    IN  Stretch(made, <<status>>, stored.table, az, workspace_info, stored.outcome)

\* the handler of a component and the validation that precedes it
handler_of(component, is_provisioning) ==
    CASE component.cls = "JobWorkload" ->
             IF is_provisioning THEN "job_workload_handler.provision_workload"
             ELSE "job_workload_handler.unprovision_workload"
      [] component.cls = "WorkflowWorkload" ->
             IF is_provisioning THEN "workflow_workload_handler.provision_workflow"
             ELSE "workflow_workload_handler.unprovision_workload"
      [] component.cls = "DLTWorkload" ->
             IF is_provisioning THEN "dlt_workload_handler.provision_workload"
             ELSE "dlt_workload_handler.unprovision_workload"
      [] OTHER ->
             IF is_provisioning THEN "output_port_handler.provision_output_port"
             ELSE "output_port_handler.unprovision_output_port"

validation_of(component, is_provisioning) ==
    IF ~is_provisioning THEN <<>>
    ELSE IF component.cls = "WorkflowWorkload" THEN <<"validate_workflow_for_provisioning">>
    ELSE IF component.cls = "OutputPort" THEN <<"validate_table_existence_and_schema">>
    ELSE <<>>

\* _handle_workload and _handle_output_port from _raise_if_workspace_not_ready
\* on: the readiness gate, the workspace client, the validation, the handler
\* and the update of the task
handle_in_workspace(map, task_id, component, is_provisioning, located, faults) ==
    LET workspace_info == located.outcome.value[1]
        client == <<Call("get_workspace_client", workspace_info.name)>>
        validation == [i \in 1..Len(validation_of(component, is_provisioning)) |->
                           Call(validation_of(component, is_provisioning)[i],
                                workspace_info.name)]
        handler == <<Call(handler_of(component, is_provisioning), workspace_info.name)>>
        raising(made, e) ==
            Stretch(located.calls \o made, <<>>, map, located.azure, located.outcome.value, Throw(e))
    IN  IF workspace_not_ready(workspace_info)
        THEN raising(<<>>, ProvisioningError(<< <<"The status of">> \o workspace_info.name
                                               \o <<"workspace is different from 'ACTIVE'.">> >>))
        ELSE IF faults.client
        THEN raising(client,
                     WorkspaceHandlerError(<<"Failed to create Databricks workspace client">>))
        ELSE IF component.cls = "OutputPort" /\ is_provisioning /\ workspace_info.is_managed
        THEN raising(client,
                     ProvisioningError(<< <<"Witboost managed workspace are not yet",
                                            "supported on this version">> >>))
        ELSE IF validation # <<>> /\ faults.validation
        THEN raising(client \o validation, ProvisioningError(<< <<"validation failed">> >>))
        ELSE IF faults.handler
        THEN raising(client \o validation \o handler,
                     ProvisioningError(<< <<"handler failed">> >>))
        ELSE updating(located.calls \o client \o validation \o handler, map, located.azure,
                      located.outcome.value, task_id, "COMPLETED", EmptyStr,
                      IF is_provisioning THEN info_of(component) ELSE "None")

\* AzureWorkspaceHandler.get_workspace_info
get_workspace_info(az, workspace_identifier, permissions, fault) ==
    LET by_name == get_workspace_info_by_name(az, workspace_identifier, permissions, fault)
    IN  IF by_name.outcome.type = "raise" /\ by_name.outcome.exc.cls = "WorkspaceHandlerError"
        THEN Stepped(by_name.calls,
                     RaiseFrom("WorkspaceHandlerError",
                               <<"Could not determine workspace for component">>,
                               by_name.outcome.exc), az)
        ELSE by_name

\* a variant that goes on into a workspace that was not found
unprovision_in_missing(map, task_id, component, existing, faults) ==
    IF existing.outcome.type = "raise"
    THEN Stretch(existing.calls, <<>>, map, existing.azure, <<>>, existing.outcome)
    ELSE handle_in_workspace(
             map, task_id, component, FALSE,
             IF existing.outcome.value # <<>> THEN existing
             ELSE Stepped(existing.calls,
                          Return(<<build_managed(component.workspace, "SUCCEEDED")>>),
                          existing.azure),
             faults)

\* _handle_workload and _handle_output_port, is_provisioning False, after
\* get_workspace_info: a missing workspace ends the task as COMPLETED
unprovision_in(map, task_id, component, existing, faults) ==
    IF existing.outcome.type = "raise"
    THEN Stretch(existing.calls, <<>>, map, existing.azure, <<>>, existing.outcome)
    ELSE IF existing.outcome.value = <<>>
    THEN updating(existing.calls, map, existing.azure, <<>>, task_id, "COMPLETED",
                  <<"Unprovision skipped for component, Workspace">> \o component.workspace
                      \o <<"not found">>,
                  "None")
    ELSE handle_in_workspace(map, task_id, component, FALSE, existing, faults)

\* _handle_workload and _handle_output_port, is_provisioning True, after
\* provision_workspace
provision_in(map, task_id, component, resolved, faults) ==
    IF resolved.outcome.type = "raise"
    THEN Stretch(resolved.calls, <<>>, map, resolved.azure, <<>>, resolved.outcome)
    ELSE handle_in_workspace(map, task_id, component, TRUE, resolved, faults)

\* _handle_workload and _handle_output_port
handle(map, az, task_id, component, is_provisioning, permissions, faults) ==
    IF component.cls = "Other"
    THEN Stretch(<<>>, <<>>, map, az, <<>>,
                 Throw(ProvisioningError(<< <<"The component is of type">>
                                            \o <<component.kind>>
                                            \o <<"but doesn't have the expected structure">> >>)))
    ELSE IF is_provisioning
    THEN provision_in(map, task_id, component,
                      provision_workspace(az, component.workspace, permissions, faults), faults)
    ELSE unprovision_in(map, task_id, component,
                        get_workspace_info(az, component.workspace, permissions, faults.lookup),
                        faults)

\* a variant that takes a component of any kind for a job
try_any_kind(map, az, task_id, component, is_provisioning, permissions, faults) ==
    handle(map, az, task_id, [component EXCEPT !.cls = "JobWorkload"], is_provisioning,
           permissions, faults)

\* _start_provisioning, the body of its try
try(map, az, task_id, component, is_provisioning, permissions, faults) ==
    IF component.kind \in {"workload", "outputport"}
    THEN handle(map, az, task_id, component, is_provisioning, permissions, faults)
    ELSE updating(<<>>, map, az, <<>>, task_id, "FAILED",
                  <<"The kind">> \o <<component.kind>>
                      \o <<"of the component is not supported by this Tech Adapter">>,
                  "None")

\* what an execution leaves behind: as a stretch, with the exception that
\* leaves _start_provisioning in place of the outcome
Ended(stretch, updates, map, raised) ==
    [calls |-> stretch.calls, updates |-> updates, table |-> map, azure |-> stretch.azure,
     workspace_info |-> stretch.workspace_info, raised |-> raised]

\* the except clauses of _start_provisioning: both answer the exception with
\* update_task(id=task_id, status=FAILED, result=error_msg); an exception of
\* that update leaves the execution, with the first one as its context
except(task_id, stretch) ==
    LET stored == MemoryTaskRepository_update_task(
                      stretch.table, task_id, "FAILED",
                      build_error_message_from_chained_exception(stretch.outcome.exc.chain),
                      "None")
    IN  IF stretch.outcome.type = "return"
        THEN Ended(stretch, stretch.updates, stretch.table, NoExc)
        ELSE Ended(stretch, Append(stretch.updates, "FAILED"), stored.table,
                      IF stored.outcome.type = "return" THEN NoExc
                      ELSE Exc(stored.outcome.exc.cls,
                               stored.outcome.exc.chain \o stretch.outcome.exc.chain))

\* ProvisionService._start_provisioning
start_provisioning_of(map, az, task_id, component, is_provisioning, permissions, faults) ==
    except(task_id, try(map, az, task_id, component, is_provisioning, permissions, faults))

-----------------------------------------------------------------------------
(* The executions' state machine: the repository, Azure and the last execution *)

\* the components a task is given: their kind, the class they were parsed
\* into and specific.workspace
GateComponents ==
    [kind : {"workload"}, cls : {"JobWorkload", "WorkflowWorkload", "DLTWorkload", "Other"},
     workspace : {UrlReference, <<"ws">>}]
    \cup [kind : {"outputport"}, cls : {"OutputPort"}, workspace : {UrlReference, <<"ws">>}]
    \cup [kind : {"storage"}, cls : {"Other"}, workspace : {<<"ws">>}]

\* settings.azure.permissions, set or not
GatePermissions ==
    {[configured |-> FALSE, dp_owner_role_definition_id |-> "",
      dev_group_role_definition_id |-> ""],
     [configured |-> TRUE, dp_owner_role_definition_id |-> "role",
      dev_group_role_definition_id |-> "role"]}

NoGateFaults == [lookup |-> FALSE, create |-> FALSE, owner |-> FALSE, dev_group |-> FALSE,
                 client |-> FALSE, validation |-> FALSE, handler |-> FALSE]

\* one call fails in an execution, or none
GateFaults ==
    {NoGateFaults}
        \cup {[NoGateFaults EXCEPT ![f] = TRUE] :
                  f \in {"lookup", "client", "handler"}}

NoGate == [phase |-> "none", executions |-> 0, task_id |-> <<"none", 0>>,
           component |-> [kind |-> "none", cls |-> "none", workspace |-> <<>>],
           is_provisioning |-> FALSE, permissions_configured |-> FALSE,
           faults |-> NoGateFaults, known |-> FALSE,
           before |-> <<>>, workspaces |-> <<>>, after |-> NoAzure, calls |-> <<>>,
           updates |-> <<>>,
           workspace_info |-> <<>>, raised |-> NoExc]

GateInit == gate = NoGate

\* MemoryTaskRepository.create_task, as provision and unprovision call it
repository_create_task ==
    /\ Cardinality(DOMAIN status_map) < MaxTasks
    /\ status_map' = create_task(status_map, uuid4)
    /\ gate' = [NoGate EXCEPT !.executions = gate.executions]
    /\ UNCHANGED <<azure, exceptGate>>

\* _start_provisioning for the task of id task_id: one that provision or
\* unprovision stored and that has not been executed, or an id the repository
\* never issued
run_start_provisioning(task_id, component, is_provisioning, permissions, faults) ==
    /\ gate.executions < MaxExecutions
    /\ task_id[2] \in DOMAIN status_map => status_map[task_id[2]].status = "RUNNING"
    /\ \E r \in {start_provisioning_of(status_map, azure, task_id, component, is_provisioning,
                                       permissions, faults)} :
           /\ status_map' = r.table
           /\ azure' = r.azure
           /\ gate' = [phase |-> "done", executions |-> gate.executions + 1,
                       task_id |-> task_id, component |-> component,
                       is_provisioning |-> is_provisioning,
                       permissions_configured |-> permissions.configured,
                       faults |-> faults, known |-> task_id[2] \in DOMAIN status_map,
                       before |-> status_map, workspaces |-> azure.workspaces,
                       after |-> r.azure,
                       calls |-> r.calls, updates |-> r.updates,
                       workspace_info |-> r.workspace_info, raised |-> r.raised]
           /\ UNCHANGED exceptGate

NextGate ==
    \/ subscription_admin
    \/ repository_create_task
    \/ \E task_id \in {str(n) : n \in 1..uuid4}, component \in GateComponents,
          is_provisioning \in BOOLEAN, permissions \in GatePermissions,
          faults \in GateFaults :
           run_start_provisioning(task_id, component, is_provisioning, permissions, faults)

-----------------------------------------------------------------------------
(* MemoryTaskRepository called from several threads: request handlers call
   create_task and get_task, background executions call update_task.  Each
   statement inside `with self._status_map_lock` is a step of its own. *)

Threads == 1..MaxThreads

\* the arguments update_task is called with
UpdateArguments ==
    {[status |-> "COMPLETED", result |-> EmptyStr, info |-> "jobUrl"],
     [status |-> "FAILED", result |-> <<"error">>, info |-> "None"],
     [status |-> "COMPLETED", result |-> <<"skipped">>, info |-> "None"]}

NoArguments == [status |-> "None", result |-> EmptyStr, info |-> "None"]

\* a thread outside the repository
Outside == [pc |-> "outside", id |-> <<"none", 0>>, arguments |-> NoArguments, uuid |-> 0,
            returned |-> "none"]

\* the statements a thread executes while it holds the lock
Inside == {"uuid4", "insert", "get", "read", "status", "result", "info", "store"}

LockInit ==
    threads = [holder |-> 0, thread |-> [t \in Threads |-> Outside], calls |-> 0,
               created |-> {}, serial |-> <<>>, torn |-> FALSE]

\* a variant of the lock that lets every thread in
acquire_unlocked(holder) == TRUE

\* threading.Lock.acquire, as `with self._status_map_lock` calls it: blocks
\* while another thread holds the lock
acquire(holder) == holder = 0

\* what the lock actions leave alone
exceptLock ==
    <<orchRest, wsVars, mapVars, aclVars, wfVars, azVars, gateVars, creationVars, revokeVars,
      workloadVars, moreVars>>

\* a thread calls create_task, get_task or update_task
call(t, op, idstr, arguments) ==
    /\ threads.calls < MaxCalls
    /\ threads.thread[t].pc = "outside"
    /\ threads' = [threads EXCEPT !.calls = @ + 1,
                                  !.thread[t] = [pc |-> op, id |-> idstr,
                                                 arguments |-> arguments, uuid |-> 0,
                                                 returned |-> "none"]]
    /\ UNCHANGED <<status_map, exceptLock>>

\* with self._status_map_lock: __enter__
enter(t) ==
    /\ threads.thread[t].pc \in {"create_task", "get_task", "update_task"}
    /\ acquire(threads.holder)
    /\ threads' = [threads EXCEPT !.holder = t,
                                  !.thread[t].pc = CASE threads.thread[t].pc = "create_task"
                                                          -> "uuid4"
                                                     [] threads.thread[t].pc = "get_task" -> "get"
                                                     [] OTHER -> "read"]
    /\ UNCHANGED <<status_map, exceptLock>>

\* with self._status_map_lock: __exit__, on return and on raise
exit(t, value) ==
    [threads EXCEPT !.holder = 0, !.thread[t] = [Outside EXCEPT !.returned = value]]

\* create_task: id = uuid.uuid4()
create_uuid4(t) ==
    /\ threads.thread[t].pc = "uuid4"
    /\ threads' = [threads EXCEPT !.thread[t].pc = "insert", !.thread[t].uuid = uuid4]
    /\ UNCHANGED <<status_map, exceptLock>>

\* create_task: self.status_map[id] = status; return id, status
create_insert(t) ==
    /\ threads.thread[t].pc = "insert"
    /\ status_map' = create_task(status_map, threads.thread[t].uuid)
    /\ threads' = [exit(t, "id") EXCEPT
                       !.created = @ \cup {threads.thread[t].uuid},
                       !.serial = create_task(@, threads.thread[t].uuid)]
    /\ UNCHANGED exceptLock

\* self.status_map.get(uuid): the stored status, or <<>> for None
status_map_get(map, idstr) ==
    IF UUID(idstr) # "ValueError" /\ idstr[2] \in DOMAIN map THEN <<map[idstr[2]]>> ELSE <<>>

\* get_task: uuid = UUID(id); return self.status_map.get(uuid)
get_return(t) ==
    /\ threads.thread[t].pc = "get"
    /\ threads' = [exit(t, IF UUID(threads.thread[t].id) = "ValueError" THEN "ValueError"
                           ELSE IF threads.thread[t].id[2] \in DOMAIN status_map THEN "status"
                           ELSE "None")
                       EXCEPT !.torn = @ \/ status_map_get(status_map, threads.thread[t].id)
                                                # status_map_get(threads.serial,
                                                                 threads.thread[t].id)]
    /\ UNCHANGED <<status_map, exceptLock>>

\* update_task: uuid = UUID(id); stored_status = self.status_map.get(uuid);
\* if not stored_status: raise AsyncHandlingError
update_read(t) ==
    /\ threads.thread[t].pc = "read"
    /\ threads' = IF UUID(threads.thread[t].id) = "ValueError"
                  THEN exit(t, "ValueError")
                  ELSE IF threads.thread[t].id[2] \notin DOMAIN status_map
                  THEN exit(t, "AsyncHandlingError")
                  ELSE [threads EXCEPT
                            !.thread[t].pc = "status",
                            !.thread[t].uuid = threads.thread[t].id[2],
                            !.serial = update_task(@, threads.thread[t].id,
                                                   threads.thread[t].arguments.status,
                                                   threads.thread[t].arguments.result,
                                                   threads.thread[t].arguments.info)]
    /\ UNCHANGED <<status_map, exceptLock>>

\* a variant of the assignment that writes the field of every stored status
stored_status_set_all(map, id, field, value) ==
    [u \in DOMAIN map |-> [map[u] EXCEPT ![field] = value]]

\* stored_status.<field> = value, stored_status being self.status_map.get(uuid):
\* the object the map holds under that key, and no other
stored_status_set(map, id, field, value) == [map EXCEPT ![id][field] = value]

\* update_task: if status: stored_status.status = status (the stored object
\* is the one the map holds)
update_status(t) ==
    /\ threads.thread[t].pc = "status"
    /\ status_map' = IF threads.thread[t].arguments.status # "None"
                     THEN stored_status_set(status_map, threads.thread[t].uuid, "status",
                                            threads.thread[t].arguments.status)
                     ELSE status_map
    /\ threads' = [threads EXCEPT !.thread[t].pc = "result"]
    /\ UNCHANGED exceptLock

\* update_task: if result: stored_status.result = result
update_result(t) ==
    /\ threads.thread[t].pc = "result"
    /\ status_map' = IF threads.thread[t].arguments.result # EmptyStr
                     THEN stored_status_set(status_map, threads.thread[t].uuid, "result",
                                            threads.thread[t].arguments.result)
                     ELSE status_map
    /\ threads' = [threads EXCEPT !.thread[t].pc = "info"]
    /\ UNCHANGED exceptLock

\* update_task: if info: stored_status.info = info
update_info(t) ==
    /\ threads.thread[t].pc = "info"
    /\ status_map' = IF threads.thread[t].arguments.info # "None"
                     THEN stored_status_set(status_map, threads.thread[t].uuid, "info",
                                            threads.thread[t].arguments.info)
                     ELSE status_map
    /\ threads' = [threads EXCEPT !.thread[t].pc = "store"]
    /\ UNCHANGED exceptLock

\* update_task: self.status_map[uuid] = stored_status; return stored_status
update_store(t) ==
    /\ threads.thread[t].pc = "store"
    /\ threads' = exit(t, "status")
    /\ UNCHANGED <<status_map, exceptLock>>

NextLock ==
    \E t \in Threads :
        \/ call(t, "create_task", <<"none", 0>>, NoArguments)
        \/ \E idstr \in {<<form, n>> : form \in {"canonical", "malformed"}, n \in 1..MaxCalls} :
               call(t, "get_task", idstr, NoArguments)
        \/ \E idstr \in {<<form, n>> : form \in {"canonical", "malformed"}, n \in 1..MaxCalls},
              arguments \in UpdateArguments :
               call(t, "update_task", idstr, arguments)
        \/ enter(t)
        \/ create_uuid4(t)
        \/ create_insert(t)
        \/ get_return(t)
        \/ update_read(t)
        \/ update_status(t)
        \/ update_result(t)
        \/ update_info(t)
        \/ update_store(t)

-----------------------------------------------------------------------------
(* create_repository_with_permissions called from concurrent executions.
   Every request builds its ProvisionService, and with it its handlers, anew
   (create_provision_service), and its execution runs in a thread of its own. *)

Provisions == 1..MaxProvisions

\* the workspaces the provisions run against
RepoWorkspaces == {<<"ws">>, <<"other">>}

\* the statements of create_repository_with_permissions under
\* `with self._repo_creation_lock`, up to the creation of the repository
RepositoryCreationStep == {"git_credentials.list", "git_credentials.write", "mkdirs",
                           "create_repo"}

NoProvision == [pc |-> "none", handler |-> 0, workspace |-> <<>>, existing |-> FALSE]

CreationInit ==
    creation = [handlers |-> 0, lock |-> <<>>, provision |-> [t \in Provisions |-> NoProvision],
                credentials |-> [w \in RepoWorkspaces |-> 0],
                folders |-> [w \in RepoWorkspaces |-> 0],
                repos |-> [w \in RepoWorkspaces |-> 0]]

\* what the repository-creation actions leave alone
exceptCreation ==
    <<orchVars, wsVars, mapVars, aclVars, wfVars, azVars, gateVars, lockVars, revokeVars,
      workloadVars, moreVars>>

\* a provision request on a workload of that workspace: create_provision_service
\* builds a JobWorkloadHandler, a WorkflowWorkloadHandler and a DLTWorkloadHandler,
\* each with a new _repo_creation_lock; the execution then reaches
\* create_repository_with_permissions of the handler of its component
create_provision_service(t, workspace) ==
    /\ creation.provision[t].pc = "none"
    /\ creation' = [creation EXCEPT
                        !.handlers = @ + 1,
                        !.lock = Append(@, 0),
                        !.provision[t] = [pc |-> "create_repository_with_permissions",
                                          handler |-> creation.handlers + 1,
                                          workspace |-> workspace, existing |-> FALSE]]
    /\ UNCHANGED exceptCreation

\* with self._repo_creation_lock: __enter__
repo_creation_lock_enter(t) ==
    /\ creation.provision[t].pc = "create_repository_with_permissions"
    /\ acquire(creation.lock[creation.provision[t].handler])
    /\ creation' = [creation EXCEPT !.lock[creation.provision[t].handler] = t,
                                    !.provision[t].pc = "git_credentials.list"]
    /\ UNCHANGED exceptCreation

\* WorkspaceManager.set_git_credentials: the credentials of the provider are
\* looked for in git_credentials.list() (under the _git_lock of the
\* WorkspaceManager this call has just built)
git_credentials_list(t) ==
    /\ creation.provision[t].pc = "git_credentials.list"
    /\ creation' = [creation EXCEPT
                        !.provision[t].pc = "git_credentials.write",
                        !.provision[t].existing =
                            creation.credentials[creation.provision[t].workspace] > 0]
    /\ UNCHANGED exceptCreation

\* WorkspaceManager.set_git_credentials: git_credentials.update on the
\* credentials found, git_credentials.create when none was
git_credentials_write(t) ==
    /\ creation.provision[t].pc = "git_credentials.write"
    /\ creation' = [creation EXCEPT
                        !.provision[t].pc = "mkdirs",
                        !.credentials[creation.provision[t].workspace] =
                            IF creation.provision[t].existing THEN @ ELSE @ + 1]
    /\ UNCHANGED exceptCreation

\* workspace_client.workspace.mkdirs(path=folder_path)
mkdirs(t) ==
    /\ creation.provision[t].pc = "mkdirs"
    /\ creation' = [creation EXCEPT !.provision[t].pc = "create_repo",
                                    !.folders[creation.provision[t].workspace] = 1]
    /\ UNCHANGED exceptCreation

\* repo_manager.create_repo(git_repo_url, provider, repo_path_full)
create_repo(t) ==
    /\ creation.provision[t].pc = "create_repo"
    /\ creation' = [creation EXCEPT !.provision[t].pc = "permissions",
                                    !.repos[creation.provision[t].workspace] = 1]
    /\ UNCHANGED exceptCreation

\* the permissions on the repository, then with self._repo_creation_lock: __exit__
repo_creation_lock_exit(t) ==
    /\ creation.provision[t].pc = "permissions"
    /\ creation' = [creation EXCEPT !.lock[creation.provision[t].handler] = 0,
                                    !.provision[t].pc = "done"]
    /\ UNCHANGED exceptCreation

NextCreation ==
    \E t \in Provisions :
        \/ \E workspace \in RepoWorkspaces : create_provision_service(t, workspace)
        \/ repo_creation_lock_enter(t)
        \/ git_credentials_list(t)
        \/ git_credentials_write(t)
        \/ mkdirs(t)
        \/ create_repo(t)
        \/ repo_creation_lock_exit(t)

-----------------------------------------------------------------------------
(* The permissions on a repository (RepoManager) and the two places where a
   configured NO_PERMISSIONS is acted on: the roles on the workspace in Azure
   and the permissions on the repository *)

\* a principal of a repository's access control list: user_name or group_name
RepoPrincipal(kind, name) == [kind |-> kind, name |-> name]

OwnerUser == RepoPrincipal("user", "owner")
DevelopersGroup == RepoPrincipal("group", "dev")
\* a user that goes by the name of the group
DevUser == RepoPrincipal("user", "dev")

RepoPrincipals == {OwnerUser, DevelopersGroup, DevUser}

\* RepositoryPermissions, the levels settings.databricks.permissions.workload.repo takes
RepositoryPermissions == {"CAN_MANAGE", "CAN_READ", "NO_PERMISSIONS"}

\* str.upper on those levels
upper(level) == level

\* what a call of RepoManager leaves behind: the SDK calls, the outcome and
\* the access control list of the repository
Permitted(made, outcome, access_control_list) ==
    [calls |-> made, outcome |-> outcome, acl |-> access_control_list]

\* RepoManager._convert_to_access_control_requests: each principal with the
\* first of its permission levels
convert_to_access_control_requests(responses) ==
    [principal \in DOMAIN responses |-> <<responses[principal][1]>>]

RepoManagerError(text, principal) ==
    RaiseFrom("RepoManagerError", <<text, principal.name>>,
              Exc("DatabricksError", << <<"repos.get_permissions", "failed">> >>))

\* RepoManager._assign_permissions; the list sent holds the new entry after
\* the current ones, and the repository then has the principal at that level
assign_permissions(current, principal, permission_level, fault) ==
    LET access_control_list ==
            [q \in DOMAIN current \cup {principal} |->
                 IF q = principal THEN <<permission_level>>
                 ELSE convert_to_access_control_requests(current)[q]]
    IN  IF fault
        THEN Permitted(<<Call("repos.get_permissions", principal)>>,
                       RepoManagerError("Error assigning permission to", principal), current)
        ELSE Permitted(<<Call("repos.get_permissions", principal),
                         Call("repos.set_permissions", access_control_list)>>,
                       Return(<<>>), access_control_list)

\* RepoManager._remove_permissions: the list without the principal is sent,
\* unless the principal was not on it
remove_permissions(current, principal, fault) ==
    LET updated_acl == [q \in DOMAIN current \ {principal} |->
                            convert_to_access_control_requests(current)[q]]
    IN  IF fault
        THEN Permitted(<<Call("repos.get_permissions", principal)>>,
                       RepoManagerError("Error removing permissions for", principal), current)
        ELSE IF principal \notin DOMAIN current
        THEN Permitted(<<Call("repos.get_permissions", principal)>>, Return(<<>>), current)
        ELSE Permitted(<<Call("repos.get_permissions", principal),
                         Call("repos.set_permissions", updated_acl)>>,
                       Return(<<>>), updated_acl)

\* create_repository_with_permissions: the permission of one principal
set_repo_permission(current, principal, configured, fault) ==
    IF upper(configured) = "NO_PERMISSIONS" THEN remove_permissions(current, principal, fault)
    ELSE assign_permissions(current, principal, upper(configured), fault)

\* create_repository_with_permissions from `Update Repo Permissions` on: the
\* owner, then the developer group; any exception is wrapped
update_repo_permissions(current, repo_config_permissions, faults) ==
    LET owner == set_repo_permission(current, OwnerUser, repo_config_permissions.owner,
                                     faults.owner)
        developer == set_repo_permission(owner.acl, DevelopersGroup,
                                         repo_config_permissions.developer, faults.developer)
        wrapped(made, e, list) ==
            Permitted(made, RaiseFrom("ProvisioningError", <<"Error creating repository">>, e),
                      list)
    IN  IF owner.outcome.type = "raise" THEN wrapped(owner.calls, owner.outcome.exc, owner.acl)
        ELSE IF developer.outcome.type = "raise"
        THEN wrapped(owner.calls \o developer.calls, developer.outcome.exc, developer.acl)
        ELSE Permitted(owner.calls \o developer.calls, Return(<<>>), developer.acl)

\* the workspace the roles are managed on
RevokeWorkspace == build_managed(<<"ws">>, "SUCCEEDED")

NoRevoke == [phase |-> "none", target |-> "none", config |-> <<>>, roles |-> {}, acl |-> <<>>,
             calls |-> <<>>, outcome |-> Return(<<>>)]

RevokeInit == revoke = [repo_acl |-> <<>>, last |-> NoRevoke]

exceptRevoke ==
    <<orchVars, wsVars, mapVars, aclVars, wfVars, resolve, gateVars, lockVars, creationVars,
      workloadVars, moreVars>>

\* somebody with rights on the subscription assigns a role on the workspace
\* or on its resource group
subscription_assigns(role_assignment) ==
    /\ role_assignment \notin azure.roles
    /\ azure' = [azure EXCEPT !.roles = @ \cup {role_assignment}]
    /\ revoke' = [revoke EXCEPT !.last = NoRevoke]
    /\ UNCHANGED exceptRevoke

\* somebody with rights on the repository gives a principal its levels
repository_admin(principal, levels) ==
    /\ principal \notin DOMAIN revoke.repo_acl
    /\ revoke' = [repo_acl |-> [q \in DOMAIN revoke.repo_acl \cup {principal} |->
                                    IF q = principal THEN levels ELSE revoke.repo_acl[q]],
                  last |-> NoRevoke]
    /\ UNCHANGED <<azure, exceptRevoke>>

\* provision_workspace reaches _manage_azure_permissions for the owner and
\* for the development group
azure_permissions(dp_owner_role_definition_id, dev_group_role_definition_id, faults) ==
    \E owner \in {manage_azure_permissions(azure, RevokeWorkspace, "owner",
                                           dp_owner_role_definition_id, faults.owner)} :
        \E dev_group \in {IF owner.outcome.type = "raise"
                          THEN Stepped(<<>>, owner.outcome, owner.azure)
                          ELSE manage_azure_permissions(owner.azure, RevokeWorkspace,
                                                        "dev_group",
                                                        dev_group_role_definition_id,
                                                        faults.developer)} :
            /\ azure' = dev_group.azure
            /\ revoke' = [revoke EXCEPT
                              !.last = [phase |-> "done", target |-> "workspace",
                                        config |-> [owner |-> dp_owner_role_definition_id,
                                                    developer |-> dev_group_role_definition_id],
                                        roles |-> azure.roles, acl |-> revoke.repo_acl,
                                        calls |-> owner.calls \o dev_group.calls,
                                        outcome |-> dev_group.outcome]]
            /\ UNCHANGED exceptRevoke

\* create_repository_with_permissions reaches the permissions of the repository
repository_permissions(repo_config_permissions, faults) ==
    \E r \in {update_repo_permissions(revoke.repo_acl, repo_config_permissions, faults)} :
        /\ revoke' = [repo_acl |-> r.acl,
                      last |-> [phase |-> "done", target |-> "repository",
                                config |-> repo_config_permissions,
                                roles |-> azure.roles, acl |-> revoke.repo_acl,
                                calls |-> r.calls, outcome |-> r.outcome]]
        /\ UNCHANGED <<azure, exceptRevoke>>

\* the role assignments made outside the adapter
AssignedOutside ==
    {RoleAssignment(<<"ws">>, "owner", "role", "workspace"),
     RoleAssignment(<<"ws">>, "owner", "reader", "workspace"),
     RoleAssignment(<<"ws">>, "owner", "reader", "resource_group"),
     RoleAssignment(<<"ws">>, "dev_group", "role", "workspace")}

\* the permissions on the repository given outside the adapter
GivenOutside ==
    {<<OwnerUser, <<"CAN_READ">> >>, <<OwnerUser, <<"CAN_MANAGE", "CAN_READ">> >>,
     <<DevelopersGroup, <<"CAN_MANAGE", "CAN_READ">> >>, <<DevUser, <<"CAN_READ">> >>}

RevokeFaults == {[owner |-> FALSE, developer |-> FALSE], [owner |-> TRUE, developer |-> FALSE],
                 [owner |-> FALSE, developer |-> TRUE]}

NextRevoke ==
    \/ \E role_assignment \in AssignedOutside : subscription_assigns(role_assignment)
    \/ \E given \in GivenOutside : repository_admin(given[1], given[2])
    \/ \E dp_owner_role_definition_id \in {"", "role", "no_permissions", "NO_PERMISSIONS"},
          dev_group_role_definition_id \in {"", "role", "no_permissions"},
          faults \in RevokeFaults :
           azure_permissions(dp_owner_role_definition_id, dev_group_role_definition_id, faults)
    \/ \E repo_config_permissions \in [owner : RepositoryPermissions,
                                       developer : RepositoryPermissions],
          faults \in RevokeFaults :
           repository_permissions(repo_config_permissions, faults)

-----------------------------------------------------------------------------
(* The provision of a workload by its handler: JobWorkloadHandler,
   WorkflowWorkloadHandler and DLTWorkloadHandler.  The mapping of the
   principals is computed against the account's groups; the steps around it
   are kept as the calls they make, each of which can fail. *)

\* what a stretch of a handler leaves behind
Stage(made, outcome) == [calls |-> made, outcome |-> outcome]

\* dev_group, with the prefix of a group put in front when it has none
prefixed(dev_group) ==
    IF startswith(dev_group, GROUP_PREFIX) THEN dev_group ELSE <<GROUP_PREFIX>> \o dev_group

\* the order in which the subjects of a workload are iterated
SubjectOrder == <<Owner, <<USER_PREFIX>>, <<"ann">>, DevGroupRef>>

\* a variant that returns the mapping with its failures in it
map_workload_principals_unchecked(groups, data_product, failing) ==
    Return(<<DatabricksMapper_map(groups, {data_product.dataProductOwner,
                                           prefixed(data_product.devGroup)},
                                  failing).results>>)

\* BaseWorkloadHandler.map_principals
map_workload_principals(groups, data_product, failing) ==
    LET subjects_to_map == {data_product.dataProductOwner, prefixed(data_product.devGroup)}
        mapped_principals == DatabricksMapper_map(groups, subjects_to_map, failing)
        errors == SelectSeq(Ordered(subjects_to_map, SubjectOrder),
                            LAMBDA ref : mapped_principals.results[ref].kind = "error")
        inner == ProvisioningError([i \in 1..Len(errors) |->
                                        mapped_principals.results[errors[i]].value])
    IN  IF errors # <<>>
        THEN RaiseFrom("ProvisioningError",
                       <<"An unexpected error occurred while mapping principals for component",
                         "Details:">> \o message(inner), inner)
        ELSE Return(<<mapped_principals.results>>)

\* the except clauses of a handler: JobWorkloadHandler wraps every exception,
\* the two others let a ProvisioningError through
handler_except(cls, e) ==
    IF cls # "JobWorkload" /\ e.cls = "ProvisioningError" THEN Throw(e)
    ELSE IF cls = "WorkflowWorkload"
    THEN RaiseFrom("ProvisioningError", <<"An error occurred while provisioning component">>, e)
    ELSE RaiseFrom("ProvisioningError", <<"Error provisioning component">>, e)

\* create_repository_with_permissions, as the calls it makes
repository_calls ==
    <<Call("set_git_credentials", "repo"), Call("workspace.mkdirs", "repo"),
      Call("create_repo", "repo")>>

repository_permission_calls ==
    <<Call("repo_permissions", "owner"), Call("repo_permissions", "developer")>>

\* the except clause of create_repository_with_permissions
repository_except(e) == From("ProvisioningError", "Error creating repository", e)

\* the calls of a handler after the repository: the git credentials of the
\* run-as principal of a job, the job, workflow or pipeline, and the
\* permissions on a job or workflow
resource_calls(component) ==
    CASE component.cls = "JobWorkload" ->
             (IF component.run_as
              THEN <<Call("set_service_principal_git_credentials", "run_as")>> ELSE <<>>)
                 \o <<Call("create_or_update_job", "job"),
                      Call("update_job_permissions", "id")>>
      [] component.cls = "WorkflowWorkload" ->
             <<Call("create_or_update_workflow", "workflow"),
               Call("update_job_permissions", "id")>>
      [] OTHER -> <<Call("create_or_update_dlt_pipeline", "pipeline")>>

\* the place of a call among the calls after the repository, 0 when it is not made
place(resources, apis) ==
    IF \E n \in 1..Len(resources) : resources[n].api \in apis
    THEN CHOOSE n \in 1..Len(resources) : resources[n].api \in apis
    ELSE 0

ResourceCalls ==
    {"create_or_update_job", "create_or_update_workflow", "create_or_update_dlt_pipeline"}

\* a variant that goes on to the resource whatever became of the repository
after_mapping_regardless(component, is_managed, made, fault) ==
    Stage(made \o SubSeq(repository_calls, 1, 1) \o resource_calls(component), Return(<<"id">>))

\* the handlers from create_repository_with_permissions on
after_mapping(component, is_managed, made, fault) ==
    LET repository == made \o repository_calls
        permitted == repository \o repository_permission_calls
        resources == resource_calls(component)
        failed_at(n) == Stage(permitted \o SubSeq(resources, 1, n),
                              handler_except(component.cls,
                                             SdkError(resources[n].api, resources[n].id)))
    IN  IF fault = "repository"
        THEN Stage(made \o SubSeq(repository_calls, 1, 1),
                   handler_except(component.cls,
                                  repository_except(SdkError("set_git_credentials", "repo"))))
        ELSE IF is_managed
        THEN Stage(repository,
                   handler_except(component.cls,
                                  repository_except(ProvisioningError(
                                      << <<"Witboost managed workspace are not yet supported">> >>))))
        ELSE IF fault = "credentials"
                /\ place(resources, {"set_service_principal_git_credentials"}) # 0
        THEN failed_at(place(resources, {"set_service_principal_git_credentials"}))
        ELSE IF fault = "resource" THEN failed_at(place(resources, ResourceCalls))
        ELSE IF fault = "permissions" /\ place(resources, {"update_job_permissions"}) # 0
        THEN failed_at(place(resources, {"update_job_permissions"}))
        ELSE Stage(permitted \o resources, Return(<<"id">>))

\* the handlers from the return of map_principals to
\* create_repository_with_permissions
after_map_principals(component, data_product, is_managed, made, mapping, fault) ==
    IF mapping.type = "raise" THEN Stage(made, handler_except(component.cls, mapping.exc))
    ELSE IF \/ mapping.value[1][data_product.dataProductOwner].value = <<>>
            \/ mapping.value[1][prefixed(data_product.devGroup)].value = <<>>
    THEN Stage(made,
               handler_except(component.cls,
                              ProvisioningError(<< <<"Error while mapping principals.",
                                                    "Failed to retrieve outcome of mapping">> >>)))
    ELSE after_mapping(component, is_managed, made, fault)

\* DLTWorkloadHandler.provision_workload up to map_principals: the metastore
\* of a managed workspace and the catalog
before_map_principals(component, is_managed, fault) ==
    LET attached == IF is_managed THEN <<Call("attach_metastore", "metastore")>> ELSE <<>>
        ensured == attached \o <<Call("create_catalog_if_not_exists", "catalog")>>
    IN  IF component.cls # "DLTWorkload" THEN Stage(<<>>, Return(<<>>))
        ELSE IF is_managed /\ ~component.metastore
        THEN Stage(<<>>,
                   handler_except(component.cls,
                                  ProvisioningError(<< <<"Can't attach metastore as metastore",
                                                        "name is not provided">> >>)))
        ELSE IF fault = "catalog"
        THEN Stage(ensured,
                   handler_except(component.cls,
                                  SdkError("create_catalog_if_not_exists", "catalog")))
        ELSE Stage(ensured, Return(<<>>))

\* JobWorkloadHandler.provision_workload, WorkflowWorkloadHandler.provision_workflow
\* and DLTWorkloadHandler.provision_workload
provision_workload(groups, data_product, component, is_managed, faults, before) ==
    IF before.outcome.type = "raise" THEN before
    ELSE after_map_principals(component, data_product, is_managed, before.calls,
                              map_workload_principals(groups, data_product, faults.mapping),
                              faults.step)

\* the data products: an owner that is a user, a user of no name, or no
\* reference at all, and a development group with or without its prefix
DataProducts ==
    [dataProductOwner : {Owner, <<USER_PREFIX>>, <<"ann">>}, devGroup : {DevGroup, DevGroupRef}]

Workloads ==
    [cls : {"JobWorkload"}, run_as : BOOLEAN, metastore : {FALSE}]
    \cup [cls : {"WorkflowWorkload"}, run_as : {FALSE}, metastore : {FALSE}]
    \cup [cls : {"DLTWorkload"}, run_as : {FALSE}, metastore : BOOLEAN]

HandlerFaults ==
    [mapping : {{}, {DevGroupRef}}, step : {"none"}]
    \cup [mapping : {{}},
          step : {"catalog", "repository", "credentials", "resource", "permissions"}]

NoWorkload == [phase |-> "none", data_product |-> [dataProductOwner |-> <<>>, devGroup |-> <<>>],
              component |-> [cls |-> "none", run_as |-> FALSE, metastore |-> FALSE],
              is_managed |-> FALSE, groups |-> <<>>,
              faults |-> [mapping |-> {}, step |-> "none"],
              calls |-> <<>>, outcome |-> Return(<<>>)]

WorkloadInit == workload = NoWorkload

\* a handler provisions a workload
handler_provision(data_product, component, is_managed, faults) ==
    \E r \in {provision_workload(account_groups, data_product, component, is_managed, faults,
                                 before_map_principals(component, is_managed, faults.step))} :
        /\ workload' = [phase |-> "done", data_product |-> data_product,
                       component |-> component, is_managed |-> is_managed,
                       groups |-> account_groups, faults |-> faults,
                       calls |-> r.calls, outcome |-> r.outcome]
        /\ UNCHANGED <<orchVars, wsVars, mapVars, aclVars, wfVars, azVars, gateVars, lockVars,
                       creationVars, revokeVars, moreVars>>

NextProvision ==
    \/ account_admin
    \/ \E data_product \in DataProducts, component \in Workloads, is_managed \in BOOLEAN,
          faults \in HandlerFaults :
           handler_provision(data_product, component, is_managed, faults)

-----------------------------------------------------------------------------
(* The synchronous entry point of update-acl: UpdateAclService.update_acl
   from the component it is given to the answer it returns. *)

\* what the entry point has done: the calls of the workspace resolver, whether
\* the client was asked for, what the handler left, and how the call ended
Replied(resolver_calls, client_asked, handler, outcome) ==
    [resolver_calls |-> resolver_calls, client_asked |-> client_asked, handler |-> handler,
     outcome |-> outcome]

\* the handler was not called
NotCalled(gs) == [called |-> FALSE, grants |-> gs, calls |-> <<>>, outcome |-> Return(<<>>)]

Called(updated) ==
    [called |-> TRUE, grants |-> updated.grants, calls |-> updated.calls,
     outcome |-> updated.outcome]

\* ProvisioningStatus(status=..., result=...)
ProvisioningStatus(status, result) == [type |-> "ProvisioningStatus", status |-> status,
                                       result |-> result]

\* build_request_validation_error(problems=[error_msg])
build_request_validation_error(problems) ==
    [type |-> "RequestValidationError", status |-> "none", result |-> problems]

\* a variant of the except clause that handles a ProvisioningError only
except_provisioning_error(e) ==
    IF e.cls = "ProvisioningError"
    THEN Return(<<ProvisioningStatus("FAILED",
                                     build_error_message_from_chained_exception(e.chain))>>)
    ELSE Throw(e)

\* UpdateAclService.update_acl: except Exception as e
except_Exception(e) ==
    Return(<<ProvisioningStatus("FAILED", build_error_message_from_chained_exception(e.chain))>>)

\* UpdateAclService.update_acl from the call of the handler on
update_acl_in_workspace(gs, groups, environment, witboost_users, faults, looked) ==
    \* get_workspace_client
    IF faults.client
    THEN Replied(looked.calls, TRUE, NotCalled(gs),
                  except_Exception(From("WorkspaceHandlerError",
                                        "Failed to create Databricks workspace client",
                                        SdkError("create_workspace_client", NoId))))
    ELSE LET updated == update_acl(gs, groups, environment, witboost_users, faults.handler)
         IN  Replied(looked.calls, TRUE, Called(updated),
                      IF updated.outcome.type = "raise"
                      THEN except_Exception(updated.outcome.exc)
                      ELSE Return(<<ProvisioningStatus("COMPLETED",
                                                       <<"Update of Acl completed!">>)>>))

\* UpdateAclService.update_acl from the return of get_workspace_info_by_name on
update_acl_looked(gs, groups, environment, witboost_users, faults, looked) ==
    IF looked.outcome.type = "raise"
    THEN Replied(looked.calls, FALSE, NotCalled(gs), except_Exception(looked.outcome.exc))
    ELSE IF looked.outcome.value = <<>>
    THEN Replied(looked.calls, FALSE, NotCalled(gs),
                  Return(<<ProvisioningStatus("FAILED", <<>>)>>))
    ELSE update_acl_in_workspace(gs, groups, environment, witboost_users, faults, looked)

\* UpdateAclService.update_acl
UpdateAclService_update_acl(gs, groups, az, component, environment, witboost_users, permissions, faults) ==
    IF component.cls # "OutputPort"
    THEN Replied(<<>>, FALSE, NotCalled(gs),
                  Return(<<build_request_validation_error(
                               << <<"The component is not supported for",
                                    "updating access control by this Tech Adapter">> >>)>>))
    ELSE update_acl_looked(gs, groups, environment, witboost_users, faults,
                           get_workspace_info_by_name(az, component.workspace_op, permissions,
                                                      faults.lookup))

\* the components of a request: an output port or a workload, on a workspace
\* given by its URL or by its name
EntryComponents == [cls : {"OutputPort", "JobWorkload"}, workspace_op : {UrlReference, <<"ws">>}]

\* what fails in one request: the lookup of the workspace, the client, the
\* lookup of the dev group, or the listing of the grants
NoEntryFaults == [lookup |-> FALSE, client |-> FALSE, handler |-> NoFaults]

EntryFaults ==
    {NoEntryFaults, [NoEntryFaults EXCEPT !.lookup = TRUE],
     [NoEntryFaults EXCEPT !.client = TRUE],
     [NoEntryFaults EXCEPT !.handler = [NoFaults EXCEPT !.mapping = {DevGroupRef}]],
     [NoEntryFaults EXCEPT !.handler = [NoFaults EXCEPT !.retrieve = TRUE]]}

\* the lists of references a request carries: one that maps, one that does not
EntryUsers == {{Owner}, {Owner, OpsGroupRef}}

NoEntry == [phase |-> "none", component |-> [cls |-> "none", workspace_op |-> <<>>],
            configured |-> FALSE, faults |-> NoEntryFaults, workspaces |-> <<>>,
            resolver_calls |-> <<>>, client_asked |-> FALSE,
            handler |-> NotCalled({}), outcome |-> Return(<<>>)]

EntryInit == boundary = NoEntry

\* the variables of the other entry points and tasks stay as they are
besides_boundary == UNCHANGED <<race, secrets, checked>>

\* main.updateacl: the request is handed to UpdateAclService.update_acl
update_acl_request(component, witboost_users, configured, faults) ==
    \E r \in {UpdateAclService_update_acl(grants, account_groups, azure, component,
                                          development_environment_name, witboost_users,
                                          [configured |-> configured], faults)} :
        /\ grants' = r.handler.grants
        /\ acl' = NoAcl
        /\ boundary' = [phase |-> "done", component |-> component, configured |-> configured,
                     faults |-> faults, workspaces |-> azure.workspaces,
                     resolver_calls |-> r.resolver_calls, client_asked |-> r.client_asked,
                     handler |-> r.handler, outcome |-> r.outcome]
        /\ UNCHANGED <<orchVars, wsVars, mapVars, wfVars, azVars, earlierVars>>
        /\ besides_boundary

NextEntry ==
    \/ catalog_admin
    \/ account_admin
    \/ subscription_admin
    \/ \E component \in EntryComponents, witboost_users \in EntryUsers,
          configured \in BOOLEAN, faults \in EntryFaults :
           update_acl_request(component, witboost_users, configured, faults)

-----------------------------------------------------------------------------
(* Provisions of workloads that run at the same time in one workspace.  Each
   runs in its own thread of the pool of background tasks; the managers hold
   no lock, so the listing by name and the call that creates or updates are
   two steps between which the other provisions take theirs. *)

\* the listing by name of a manager
list_with_given_name(cls, js, ps, name, fault) ==
    IF cls = "Pipeline" THEN list_pipelines_with_given_name(ps, name, fault)
    ELSE list_jobs_with_given_name(js, name, fault)

\* a variant that creates the resource whatever the listing gave
create_whatever_listed(cls, js, ps, name, existing, fault) ==
    CASE cls = "Job" -> create_job_with_new_cluster(js, name, fault)
      [] cls = "Workflow" -> create_workflow(js, name, fault)
      [] OTHER -> create_dlt_pipeline(ps, name, fault)

\* JobManager.create_or_update_job_with_new_cluster,
\* WorkflowManager.create_or_update_workflow and
\* DLTManager.create_or_update_dlt_pipeline from the return of the listing on:
\* existing is what the listing gave, js and ps what the workspace holds now
create_or_update_listed(cls, js, ps, name, existing, fault) ==
    IF existing = <<>>
    THEN CASE cls = "Job" -> create_job_with_new_cluster(js, name, fault)
           [] cls = "Workflow" -> create_workflow(js, name, fault)
           [] OTHER -> create_dlt_pipeline(ps, name, fault)
    ELSE IF Len(existing) > 1
    THEN Done(<<>>,
              Throw(Exc(IF cls = "Job" THEN "JobManagerError"
                        ELSE IF cls = "Workflow" THEN "WorkflowManagerError"
                        ELSE "DLTManagerError",
                        << <<"Error trying to update " \o name,
                             "The ", "name is not unique">> >>)),
              IF cls = "Pipeline" THEN ps ELSE js)
    ELSE CASE cls = "Job" -> update_job_with_new_cluster(js, existing[1], name, fault)
           [] cls = "Workflow" -> update_workflow(js, existing[1], name, fault)
           [] OTHER -> update_dlt_pipeline(ps, existing[1], name, fault)

WorkloadClasses == {"Job", "Workflow", "Pipeline"}

\* a provision that has not begun
NotBegun == [pc |-> "none", cls |-> "none", name |-> "", existing |-> <<>>,
             after |-> {}, calls |-> <<>>, outcome |-> Return(<<>>)]

RaceInit == race = [tasks |-> [t \in Provisions |-> NotBegun], outside |-> FALSE]

\* the variables of the other entry points and tasks stay as they are
besides_race == UNCHANGED <<boundary, secrets, checked>>

\* somebody else changes the workspace while provisions run or have run
race_workspace_user ==
    /\ \/ \E name \in Names : /\ Fits(jobs @@ (NewId(jobs) :> name), pipelines)
                              /\ jobs' = jobs @@ (NewId(jobs) :> name)
                              /\ UNCHANGED pipelines
       \/ \E name \in Names : /\ Fits(jobs, pipelines @@ (NewId(pipelines) :> name))
                              /\ pipelines' = pipelines @@ (NewId(pipelines) :> name)
                              /\ UNCHANGED jobs
    /\ race' = [race EXCEPT !.outside = @ \/ \E t \in Provisions : race.tasks[t].pc # "none"]
    /\ calls' = <<>> /\ reply' = NoReply
    /\ UNCHANGED <<repo, orchVars, mapVars, aclVars, wfVars, azVars, earlierVars>>
    /\ besides_race

\* a provision lists the resources named as its component
list_step(t, cls, name, fault) ==
    /\ race.tasks[t].pc = "none"
    /\ \E r \in {list_with_given_name(cls, jobs, pipelines, name, fault)} :
           race' = [race EXCEPT !.tasks[t] =
                        [pc |-> IF r.outcome.type = "raise" THEN "done" ELSE "listed",
                         cls |-> cls, name |-> name, existing |-> r.outcome.value,
                         after |-> {u \in Provisions : race.tasks[u].pc = "done"},
                         calls |-> r.calls, outcome |-> r.outcome]]
    /\ calls' = <<>> /\ reply' = NoReply
    /\ UNCHANGED <<jobs, pipelines, repo, orchVars, mapVars, aclVars, wfVars, azVars,
                   earlierVars>>
    /\ besides_race

\* the provision goes on with what it listed
write_step(t, fault) ==
    /\ race.tasks[t].pc = "listed"
    /\ \E r \in {create_or_update_listed(race.tasks[t].cls, jobs, pipelines,
                                         race.tasks[t].name, race.tasks[t].existing, fault)} :
           /\ IF race.tasks[t].cls = "Pipeline"
              THEN Fits(jobs, r.resources) /\ pipelines' = r.resources /\ UNCHANGED jobs
              ELSE Fits(r.resources, pipelines) /\ jobs' = r.resources /\ UNCHANGED pipelines
           /\ race' = [race EXCEPT !.tasks[t].pc = "done",
                                   !.tasks[t].calls = @ \o r.calls,
                                   !.tasks[t].outcome = r.outcome]
    /\ calls' = <<>> /\ reply' = NoReply
    /\ UNCHANGED <<repo, orchVars, mapVars, aclVars, wfVars, azVars, earlierVars>>
    /\ besides_race

NextRace ==
    \/ race_workspace_user
    \/ \E t \in Provisions, cls \in WorkloadClasses, name \in Names, fault \in BOOLEAN :
           list_step(t, cls, name, fault)
    \/ \E t \in Provisions, fault \in BOOLEAN : write_step(t, fault)

-----------------------------------------------------------------------------
(* BaseWorkloadHandler.set_service_principal_git_credentials: the git
   credentials of a run-as service principal are set by a client that
   authenticates as the principal with a secret generated for the purpose. *)

\* the service principals the workspace lists; application_id is <<>> when
\* the listing gives None
ServicePrincipals ==
    {[display_name |-> "runner", id |-> 7, application_id |-> <<"app-7">>],
     [display_name |-> "half", id |-> 8, application_id |-> <<>>]}

\* the names a component gives in run_as
PrincipalNames == {"runner", " Runner ", "half", "ghost"}

\* name.strip().lower()
strip_lower(name) == IF name = " Runner " THEN "runner" ELSE name

\* WorkspaceManager.get_service_principal_from_name, the object it returns: the first listed
\* principal whose display name is the given one, spaces and case apart
service_principal_named(name, fault) ==
    IF fault
    THEN Throw(Exc("DatabricksWorkspaceManagerError",
                   << <<"Error getting info for service principal ", name>> >>))
    ELSE IF \E sp \in ServicePrincipals : strip_lower(sp.display_name) = strip_lower(name)
    THEN Return(<<CHOOSE sp \in ServicePrincipals :
                      strip_lower(sp.display_name) = strip_lower(name)>>)
    ELSE Return(<<>>)

\* what service_principal_secrets.create answers: an error, a secret with
\* its id and value, or a response whose value is empty
CreateResponses == {"error", "secret", "empty"}

\* WorkspaceManager.generate_secret_for_service_principal: the account holds
\* the secret from the moment create answers; the method returns the pair
\* only when the response has both the id and the value
generate_secret_for_service_principal(live, id, response) ==
    [live |-> IF response = "error" THEN live ELSE live \cup {id},
     outcome |-> IF response = "secret" THEN Return(<<id>>)
                 ELSE Throw(Exc("DatabricksWorkspaceManagerError",
                                << <<"Failed to generate secret for service principal">> >>))]

\* WorkspaceManager.delete_service_principal_secret
delete_service_principal_secret(live, id, fault) ==
    [live |-> IF fault THEN live ELSE live \ {id},
     outcome |-> IF fault
                 THEN Throw(Exc("DatabricksWorkspaceManagerError",
                                << <<"Failed to delete secret">> >>))
                 ELSE Return(<<>>)]

\* a variant that cleans up after the body only when the body did not raise
cleanup_after_body(raised) == ~raised

\* try: ... finally: the clean-up runs whether the body raised or not
cleanup_finally(raised) == TRUE

\* except Exception as e: raise ProvisioningError([error_msg]) from e
git_credentials_failed(name) ==
    Throw(Exc("ProvisioningError", << <<"Failed to set Git credentials for principal ", name>> >>))

NoRun == [pc |-> "idle", principal_name |-> "none", principal_id |-> 0, secret_id |-> <<>>,
          raised |-> FALSE, deletes |-> <<>>, outcome |-> Return(<<>>)]

\* run is the call in progress, live the secrets the account holds, issued
\* the number of secrets created so far, git the principals whose git
\* credentials are set, runs the number of calls made
SecretInit == secrets = [run |-> NoRun, live |-> {}, issued |-> 0, git |-> {}, runs |-> 0]

besides_secrets == UNCHANGED <<boundary, race, checked>>

exceptSecrets ==
    <<orchVars, wsVars, mapVars, aclVars, wfVars, azVars, earlierVars>>

\* the handler of a job or workflow with run_as calls the method
set_service_principal_git_credentials(name) ==
    /\ secrets.run.pc \in {"idle", "returned"}
    /\ secrets.runs < MaxProvisions
    /\ secrets' = [secrets EXCEPT !.run = [NoRun EXCEPT !.pc = "lookup", !.principal_name = name],
                                  !.runs = @ + 1]
    /\ UNCHANGED exceptSecrets
    /\ besides_secrets

\* principal = workspace_manager.get_service_principal_from_name(...);
\* if not principal or not principal.id or not principal.application_id: raise
principal_step(fault) ==
    /\ secrets.run.pc = "lookup"
    /\ LET got == service_principal_named(secrets.run.principal_name, fault)
       IN  secrets' = IF got.type = "raise" \/ got.value = <<>>
                         \/ got.value[1].application_id = <<>>
                      THEN [secrets EXCEPT !.run.pc = "returned",
                                !.run.outcome = git_credentials_failed(secrets.run.principal_name)]
                      ELSE [secrets EXCEPT !.run.pc = "generate",
                                           !.run.principal_id = got.value[1].id]
    /\ UNCHANGED exceptSecrets
    /\ besides_secrets

\* secret_id, secret_value = workspace_manager.generate_secret_for_service_principal(...)
generate_step(response) ==
    /\ secrets.run.pc = "generate"
    /\ LET made == generate_secret_for_service_principal(secrets.live, secrets.issued + 1,
                                                         response)
       IN  secrets' = IF made.outcome.type = "raise"
                      THEN [secrets EXCEPT !.live = made.live,
                                !.issued = IF response = "error" THEN @ ELSE @ + 1,
                                !.run.pc = "returned",
                                !.run.outcome = git_credentials_failed(secrets.run.principal_name)]
                      ELSE [secrets EXCEPT !.live = made.live, !.issued = @ + 1,
                                           !.run.pc = "client",
                                           !.run.secret_id = made.outcome.value]
    /\ UNCHANGED exceptSecrets
    /\ besides_secrets

\* run_as_client = self._get_workspace_client_for_service_principal(...)
client_step(fault) ==
    /\ secrets.run.pc = "client"
    /\ secrets' = IF fault THEN [secrets EXCEPT !.run.pc = "cleanup", !.run.raised = TRUE]
                  ELSE [secrets EXCEPT !.run.pc = "set"]
    /\ UNCHANGED exceptSecrets
    /\ besides_secrets

\* run_as_workspace_manager.set_git_credentials(settings.git)
set_git_step(fault) ==
    /\ secrets.run.pc = "set"
    /\ secrets' = IF fault THEN [secrets EXCEPT !.run.pc = "cleanup", !.run.raised = TRUE]
                  ELSE [secrets EXCEPT !.run.pc = "cleanup",
                                       !.git = @ \cup {secrets.run.principal_id}]
    /\ UNCHANGED exceptSecrets
    /\ besides_secrets

\* finally: workspace_manager.delete_service_principal_secret(principal_id,
\* secret_id); then the method returns, or raises what the body or the
\* clean-up raised, wrapped by the outer except
cleanup_step(fault) ==
    /\ secrets.run.pc = "cleanup"
    /\ IF cleanup_finally(secrets.run.raised)
       THEN LET gone == delete_service_principal_secret(secrets.live, secrets.run.secret_id[1],
                                                        fault)
            IN  secrets' = [secrets EXCEPT
                                !.live = gone.live,
                                !.run.pc = "returned",
                                !.run.deletes = Append(@, [secret_id |-> secrets.run.secret_id[1],
                                                           outcome |-> gone.outcome.type]),
                                !.run.outcome =
                                    IF secrets.run.raised \/ gone.outcome.type = "raise"
                                    THEN git_credentials_failed(secrets.run.principal_name)
                                    ELSE Return(<<>>)]
       ELSE secrets' = [secrets EXCEPT
                            !.run.pc = "returned",
                            !.run.outcome = git_credentials_failed(secrets.run.principal_name)]
    /\ UNCHANGED exceptSecrets
    /\ besides_secrets

NextSecret ==
    \/ \E name \in PrincipalNames : set_service_principal_git_credentials(name)
    \/ \E fault \in BOOLEAN : principal_step(fault)
    \/ \E response \in CreateResponses : generate_step(response)
    \/ \E fault \in BOOLEAN : client_step(fault)
    \/ \E fault \in BOOLEAN : set_git_step(fault)
    \/ \E fault \in BOOLEAN : cleanup_step(fault)

-----------------------------------------------------------------------------
(* ProvisionService._provision_workflow as the two calls it makes: the
   validation lists the workflows of the name and compares, the handler lists
   them again and writes.  The task holds no lock on the workspace, so others
   deploy workflows there between the two listings. *)

NoChecked == [phase |-> "none", specific |-> Specific(Absent, <<>>, FALSE, Absent),
              environment |-> "none", compared |-> <<>>,
              validation |-> Validated(<<>>, Return(<<>>), Absent),
              entered |-> FALSE, at_update |-> <<>>,
              handled |-> Deployed(<<>>, Return(<<>>), <<>>, <<>>)]

CheckedInit == checked = NoChecked

besides_checked == UNCHANGED <<boundary, race, secrets>>

exceptChecked ==
    <<compute, deploy, orchVars, wsVars, mapVars, aclVars, azVars, earlierVars>>

\* ProvisionService.provision: the request for a workflow is accepted and its
\* task is scheduled
schedule_workflow(specific, environment) ==
    /\ checked.phase \in {"none", "done"}
    /\ checked' = [NoChecked EXCEPT !.phase = "received", !.specific = specific,
                                    !.environment = environment]
    /\ UNCHANGED <<workflows, exceptChecked>>
    /\ besides_checked

\* someone else deploys a workflow of that name in the workspace: a user of
\* Databricks, or the task of another request for the component
deploy_meanwhile(settings) ==
    /\ NewId(workflows) \in JobIds
    /\ workflows' = workflows @@ (NewId(workflows) :>
                        Job("created", "author", id_str(NewId(workflows)), "author", settings))
    /\ UNCHANGED <<checked, exceptChecked>>
    /\ besides_checked

\* _provision_workflow: validate_workflow_for_provisioning(...); when it
\* raises the task ends there
validation_step(faults) ==
    /\ checked.phase = "received"
    /\ \E r \in {validate_workflow_for_provisioning(workflows, checked.specific.workflow,
                                                     checked.specific.override,
                                                     checked.environment, faults)} :
           checked' = [checked EXCEPT
                           !.phase = IF r.outcome.type = "raise" THEN "done" ELSE "validated",
                           !.compared = Matching(names_of(workflows),
                                                 checked.specific.workflow.settings.name),
                           !.validation = r,
                           !.handled = Deployed(<<>>, r.outcome, workflows, <<>>)]
    /\ UNCHANGED <<workflows, exceptChecked>>
    /\ besides_checked

\* a variant of the handler that writes to the workflow the validation compared
provision_compared(ws, platform, specific, faults, compared) ==
    IF Matching(names_of(ws), specific.workflow.settings.name) # compared
    THEN step_failed(<<>>, ws, <<>>)
    ELSE provision_workflow(ws, platform, specific, faults)

\* _provision_workflow: self.workflow_workload_handler.provision_workflow(...)
\* on the workspace as it is by then
provision_as_found(ws, platform, specific, faults, compared) ==
    provision_workflow(ws, platform, specific, faults)

\* _provision_workflow: the handler, called after the validation returned
handler_step(faults) ==
    /\ checked.phase = "validated"
    /\ \E r \in {provision_as_found(workflows, compute,
                                    [checked.specific EXCEPT
                                         !.workflow = checked.validation.workflow],
                                    faults, checked.compared)} :
           /\ workflows' = r.resources
           /\ checked' = [checked EXCEPT !.phase = "done", !.entered = TRUE,
                                         !.at_update = workflows, !.handled = r]
    /\ UNCHANGED exceptChecked
    /\ besides_checked

NextBetween ==
    \/ \E specific \in DriftRequests, environment \in {"development", "production"} :
           schedule_workflow(specific, environment)
    \/ \E settings \in DriftSettings : deploy_meanwhile(settings)
    \/ \E faults \in FailingOneOf({"list", "get"}) : validation_step(faults)
    \/ \E faults \in FailingOneOf({"list", "write", "before", "after"}) : handler_step(faults)

-----------------------------------------------------------------------------

Init == OrchInit /\ WsInit /\ MapInit /\ AclInit /\ WfInit /\ AzInit /\ GateInit /\ LockInit
        /\ CreationInit /\ RevokeInit
        /\ WorkloadInit
        /\ EntryInit
        /\ RaceInit
        /\ SecretInit
        /\ CheckedInit

\* the orchestrator, its clients and the remote platforms
Next ==
    \/ Cardinality(TaskIds) < MaxTasks /\ provision
    \/ Cardinality(TaskIds) < MaxTasks /\ unprovision
    \/ \E t \in DOMAIN background_tasks : start_provisioning(t)
    \/ \E t \in DOMAIN run : poll_workspace_creation(t)
    \/ \E t \in DOMAIN run : poll_on_statement_execution(t)
    \/ \E t \in DOMAIN run : lro_advance(t)
    \/ \E t \in DOMAIN run : statement_advance(t)
    \/ \E idstr \in IdStrings : get_provisioning_status(idstr)

Spec == Init /\ [][Next]_vars

\* The orchestrator with its background executions scheduled fairly: a unit of
\* work handed to BackgroundTasks is run, and a running one keeps executing.
\* Nothing is assumed of the clients or of the remote platforms.
NextLive ==
    \/ Cardinality(TaskIds) < MaxTasks /\ provision
    \/ Cardinality(TaskIds) < MaxTasks /\ unprovision
    \/ \E t \in 1..MaxTasks : execution(t)
    \/ \E t \in DOMAIN run : lro_advance(t)
    \/ \E t \in DOMAIN run : statement_advance(t)

Fairness == \A t \in 1..MaxTasks : WF_vars(execution(t))

SpecLive == Init /\ [][NextLive]_vars /\ Fairness

\* the workspace, the managers and the handlers on their own
SpecWs == Init /\ [][NextWs]_vars

\* the identity mappers and their directories on their own
SpecMap == Init /\ [][NextMap]_vars

\* the view's access control on its own
SpecAcl == Init /\ [][NextAcl]_vars

\* the drift validation in front of the workflow handler
SpecDrift == Init /\ [][NextDrift]_vars

\* the redeploy of a captured workflow into a workspace
SpecRedeploy == Init /\ [][NextRedeploy]_vars

\* the workspace a provision task on a job runs against
SpecAz == Init /\ [][NextAz]_vars

\* the executions of tasks, one at a time, against the repository and Azure
SpecGate == Init /\ [][NextGate]_vars

\* threads in MemoryTaskRepository
SpecLock == Init /\ [][NextLock]_vars

\* concurrent provisions in create_repository_with_permissions
SpecCreation == Init /\ [][NextCreation]_vars

\* the roles on a workspace and the permissions on a repository
SpecRevoke == Init /\ [][NextRevoke]_vars

-----------------------------------------------------------------------------
(* Properties of the orchestrator *)

Submitted(t) == t \in TaskIds

Finished(t) == t \in TaskIds /\ status_map[t].status \in Terminal

Executed(t) == t \in DOMAIN run /\ run[t].pc = "done"

\* C1: every task gets exactly one write of a terminal status (none while it
\* is scheduled or polling, one once its execution is over), and from then on
\* its stored status never changes.
C1_OneTerminalWrite ==
    /\ [](\A t \in TaskIds :
            /\ obs[t].terminal_writes = (IF Executed(t) THEN 1 ELSE 0)
            /\ Finished(t) <=> obs[t].terminal_writes = 1)
    /\ [][\A t \in TaskIds : Finished(t) => status_map'[t] = status_map[t]]_vars

\* an execution is over after some polling, with its one terminal write made
C1_Witness ==
    \E t \in TaskIds :
        /\ Executed(t) /\ Finished(t)
        /\ obs[t].terminal_writes = 1 /\ poll_tick = 1

\* a remote operation polled by task t has not reached a terminal state
Waiting(t) ==
    /\ t \in DOMAIN run
    /\ \/ run[t].pc = "lro" /\ lro_state[t] = "InProgress"
       \/ run[t].pc = "statement" /\ statement_state[t] \in {"PENDING", "RUNNING"}

C3_SubmitIsSynchronous ==
    /\ [](ENABLED provision /\ ENABLED unprovision)
    /\ [][TaskIds' # TaskIds =>
            \E id \in TaskIds' \ TaskIds :
                /\ TaskIds' = TaskIds \cup {id}
                /\ status_map'[id].status = "RUNNING"
                /\ id \in DOMAIN background_tasks'
                /\ background_tasks'[id].task_id = str(id)
                /\ returned' = str(id)
                /\ obs'[id].terminal_writes = 0
                /\ run' = run /\ lro_state' = lro_state
                /\ statement_state' = statement_state
                /\ \A u \in TaskIds : status_map'[u] = status_map[u]]_vars

\* a task has just been issued: it is Running, scheduled and not started
C3_Witness ==
    \E t \in DOMAIN background_tasks :
        /\ returned = str(t) /\ status_map[t].status = "RUNNING"
        /\ t \notin DOMAIN run

\* the id string was never returned by provision or unprovision
NeverIssued(idstr) == \A t \in TaskIds : str(t) # idstr

\* C4: a status query for an id string that was never issued is answered with
\* the not-found value (it does not raise, and returns no task).
C4_UnknownIdNotFound ==
    (last_status # NoQuery /\ NeverIssued(last_status.id))
        => last_status.answer = "SystemErr"

CausedBy == "\n caused by: \""

\* positions of the 'caused by:' parts of a message
CausedByAt(result) == {p \in 1..Len(result) : result[p] = CausedBy}

\* result is the message of the exception followed by one 'caused by:' part
\* for each wrapped cause, in order
ChainedMessage(result, chain) ==
    /\ SubSeq(result, 1, Len(chain[1])) = chain[1]
    /\ Cardinality(CausedByAt(result)) = Len(chain) - 1
    /\ \A i \in 2..Len(chain) :
          \E p \in CausedByAt(result) :
              /\ Cardinality({q \in CausedByAt(result) : q <= p}) = i - 1
              /\ SubSeq(result, p + 1, p + Len(chain[i])) = chain[i]

\* C5: a task whose execution raised is recorded as Failed with the chained
\* message of the exception, and the class of the exception makes no difference.
C5_ExceptionsRecorded ==
    /\ \A t \in TaskIds :
          obs[t].raised # NoExc =>
              /\ status_map[t].status = "FAILED"
              /\ ChainedMessage(status_map[t].result, obs[t].raised.chain)
    /\ \A t, u \in TaskIds :
          (obs[t].raised # NoExc /\ obs[t].raised.chain = obs[u].raised.chain)
              => status_map[t] = status_map[u]

\* an exception that is not a business error and wraps two causes was recorded
C5_Witness ==
    \E t \in TaskIds :
        /\ obs[t].raised.cls = "Exception" /\ Len(obs[t].raised.chain) = 3
        /\ status_map[t].status = "FAILED"
        /\ Len(status_map[t].result) > 3

-----------------------------------------------------------------------------
(* Properties of the managers and handlers *)

ListApis == {"jobs.list", "pipelines.list_pipelines"}

CreateApis == {"jobs.create", "pipelines.create"}

UpdateApis == {"jobs.update", "jobs.reset", "pipelines.update"}

DeleteApis == {"jobs.delete", "pipelines.delete", "repos.delete"}

\* positions in the last operation's calls of the calls to these APIs
CallsTo(apis) == {i \in 1..Len(calls) : calls[i].api \in apis}

\* the last operation listed the resources by name and got an answer
ListingReturned == CallsTo(ListApis) # {} /\ reply.listing.type = "return"

Listed == reply.listing.value

Contains(text, token) == \E i \in 1..Len(text) : text[i] = token

\* C6: a create-or-update call whose listing returns no resource makes
\* exactly one create call and no update call; one whose listing returns
\* exactly one resource makes exactly one update call, on that resource's id,
\* and no create call, and if it returns, it returns that id.
C6_CreateOrUpdate ==
    (reply.op = "create_or_update" /\ ListingReturned) =>
        /\ Len(Listed) = 0 =>
              /\ Cardinality(CallsTo(CreateApis)) = 1
              /\ CallsTo(UpdateApis) = {}
        /\ Len(Listed) = 1 =>
              /\ Cardinality(CallsTo(UpdateApis)) = 1
              /\ \A i \in CallsTo(UpdateApis) : calls[i].id = Listed[1]
              /\ CallsTo(CreateApis) = {}
              /\ reply.outcome.type = "return" => reply.outcome.value = <<Listed[1]>>

\* a workflow of that name existed, among other jobs: it was reset and its id returned
C6_Witness ==
    /\ reply.op = "create_or_update" /\ reply.cls = "Workflow"
    /\ ListingReturned /\ Len(Listed) = 1
    /\ Cardinality(DOMAIN jobs) > 1
    /\ reply.outcome = Return(<<Listed[1]>>)
    /\ calls[Len(calls)] = Call("jobs.reset", Listed[1])

\* C7: a create-or-update call whose listing returns two or more resources
\* raises the 'name is not unique' error, issues no create, update, reset or
\* delete call, and leaves the workspace as it was.
C7_NotUniqueFails ==
    /\ []((reply.op = "create_or_update" /\ ListingReturned /\ Len(Listed) >= 2) =>
            /\ reply.outcome.type = "raise"
            /\ Contains(message(reply.outcome.exc), "name is not unique")
            /\ CallsTo(CreateApis \cup UpdateApis \cup DeleteApis) = {})
    /\ [][(reply'.op = "create_or_update" /\ CallsTo(ListApis)' # {}
              /\ reply'.listing.type = "return" /\ Len(reply'.listing.value) >= 2) =>
            (jobs' = jobs /\ pipelines' = pipelines /\ repo' = repo)]_vars

\* two pipelines of the requested name existed and the call failed
C7_Witness ==
    /\ reply.op = "create_or_update" /\ reply.cls = "Pipeline"
    /\ ListingReturned /\ Len(Listed) >= 2
    /\ reply.outcome.type = "raise"

\* str() of the exception that the deletion of resource k raises
DeleteFailure(cls, k) ==
    IF cls = "Pipeline" THEN "An error occurred while deleting DLT Pipeline " \o ToString(k)
    ELSE "Error deleting job " \o ToString(k)

\* C8: when the listing of an unprovision returns N resources and deleting
\* some of them fails, a delete was attempted on each of the N, and the
\* operation raises one error whose message contains the cause of each failure.
C8_BulkUnprovisionNotFailFast ==
    (reply.op = "unprovision" /\ ListingReturned /\ reply.failed # {}) =>
        /\ \A n \in 1..Len(Listed) :
              Cardinality({i \in CallsTo(DeleteApis) : calls[i].id = Listed[n]}) = 1
        /\ reply.outcome.type = "raise"
        /\ \A k \in reply.failed :
              Contains(message(reply.outcome.exc), DeleteFailure(reply.cls, k))

\* the repository deletion was attempted (RepoManager.delete_repo's first call)
RepoDeletionAttempted == CallsTo({"workspace.list"}) # {}

\* C9: an unprovision with the remove-data flag set attempts the deletion of
\* the repository; one without it makes no call to the repository.
C9_RemoveDataDeletesRepository ==
    reply.op = "unprovision" =>
        /\ reply.remove_data => RepoDeletionAttempted
        /\ ~reply.remove_data =>
              ~RepoDeletionAttempted /\ CallsTo({"repos.get", "repos.delete"}) = {}


-----------------------------------------------------------------------------
(* Properties of the mappers *)

IsUser(ref) == Len(ref) > 1 /\ ref[1] = "user:"

IsGroup(ref) == Len(ref) > 1 /\ ref[1] = "group:"

\* the mail that a user reference encodes
MailOf(ref) == IF ref[2] = "john" THEN JohnMail ELSE <<ref[2]>>

\* the directory that the last call's mapper looks groups up in
Directory == IF results.mapper = "azure" THEN tenant_groups ELSE account_groups

\* the groups of that directory whose display name is the one ref gives
Matches(ref) == {i \in 1..Len(Directory) : lower(Directory[i]) = lower(ref[2])}

\* the last call could not resolve ref: it is malformed, its lookup failed, it
\* names a group that is unknown or ambiguous, or a user unknown to the tenant
Unresolvable(ref) ==
    \/ ~IsUser(ref) /\ ~IsGroup(ref)
    \/ ref \in results.failing
    \/ IsGroup(ref) /\ Cardinality(Matches(ref)) # 1
    \/ IsUser(ref) /\ results.mapper = "azure" /\ MailOf(ref) \notin tenant_users

\* the identity of a reference that can be resolved
IdentityOf(ref) ==
    CASE IsUser(ref) /\ results.mapper = "databricks" -> MailOf(ref)
      [] IsUser(ref) /\ results.mapper = "azure" -> <<"object id of">> \o MailOf(ref)
      [] IsGroup(ref) /\ results.mapper = "databricks" ->
             <<Directory[CHOOSE i \in Matches(ref) : TRUE]>>
      [] OTHER -> <<"object id of group", ToString(CHOOSE i \in Matches(ref) : TRUE)>>

\* C10: a map call does not raise and returns one entry per subject: an error
\* value for each subject that cannot be resolved (unknown group, ambiguous
\* group, malformed reference), the resolved identity for every other one.
C10_PerSubjectIsolation ==
    results.mapper # "none" =>
        /\ ~results.raised
        /\ DOMAIN results.results = results.subjects
        /\ \A ref \in results.subjects :
              IF Unresolvable(ref) THEN results.results[ref].kind = "error"
              ELSE results.results[ref] = [kind |-> "identity", value |-> IdentityOf(ref)]

-----------------------------------------------------------------------------
(* Access control of the view *)

\* the account cannot resolve ref in the last execution: its lookup fails, or
\* it names a group that the account does not hold exactly once
Unmappable(ref) ==
    \/ ref \in acl.faults.mapping
    \/ /\ ref[1] = GROUP_PREFIX
       /\ Cardinality({i \in 1..Len(account_groups) :
                          lower(account_groups[i]) = lower(ref[2])}) # 1

\* the request in flight was executed up to its loops: the workspace was found,
\* the principals were resolved and the grants were listed
Reconciled ==
    /\ acl.phase = "done" /\ acl.known
    /\ acl.faults.mapping = {} /\ ~acl.faults.retrieve
    /\ Len(account_groups) = 1
    /\ \A ref \in acl.identities : ~Unmappable(ref)

\* the identities of the data product's owner and dev group in the workspace
OwnerAndDevGroup == {<<"ann">>, <<account_groups[1]>>}

\* the principals the request's references stand for
DesiredPrincipals ==
    (IF Owner \in acl.identities THEN {<<"ann">>} ELSE {})
        \cup (IF DevGroupRef \in acl.identities THEN {<<account_groups[1]>>} ELSE {})

\* the principals that held a privilege on the view when the execution started
HeldBefore == {g.principal : g \in {h \in acl.before : h.object = "view"}}

RevokeCall(p) == \E i \in 1..Len(acl.calls) : acl.calls[i] = Change(p, "SELECT", "view", FALSE)

GrantCall(p) == \E i \in 1..Len(acl.calls) : acl.calls[i] = Change(p, "SELECT", "view", TRUE)

\* the principals an execution took SELECT from, for a while or for good
Removed == {p \in HeldBefore :
                /\ Grant(p, "SELECT", "view") \in acl.before
                /\ RevokeCall(p)
                /\ [principal |-> p, privilege |-> "SELECT"] \notin acl.faults.update}

\* C11: an execution of update_acl that repeats a completed one, for the same
\* request and with nothing failing, completes, takes SELECT from nobody and
\* leaves every grant on the view, its catalog and its schema as it found it.
C11_Idempotent ==
    (acl.phase = "done" /\ acl.repeats /\ acl.known /\ acl.faults = NoFaults)
        => /\ acl.status = "COMPLETED"
           /\ Removed = {}
           /\ grants = acl.before

\* a repeated execution that grants again, and asks again for the SELECT of a
\* principal that holds another privilege only
C11_Witness ==
    /\ acl.phase = "done" /\ acl.repeats /\ acl.known /\ acl.faults = NoFaults
    /\ acl.status = "COMPLETED"
    /\ DesiredPrincipals # {}
    /\ \A p \in DesiredPrincipals : GrantCall(p)
    /\ RevokeCall(<<"bob">>)

\* what update_acl owes the owner and the dev group when its environment is,
\* or is not, the development one
OwnerAndDevGroupRule(in_development) ==
    Reconciled =>
        \A p \in OwnerAndDevGroup :
            /\ in_development => ~RevokeCall(p)
            /\ (~in_development /\ p \in HeldBefore /\ p \notin DesiredPrincipals)
                   => /\ RevokeCall(p)
                      /\ acl.faults = NoFaults => Grant(p, "SELECT", "view") \notin grants

\* C12, as stated: when the environment equals the configured development
\* environment, update_acl revokes neither the mapped owner nor the mapped dev
\* group; in any other environment, one of them that holds a grant and is not
\* in the desired set is revoked.
C12_AsStated == OwnerAndDevGroupRule(acl.environment = development_environment_name)

\* C12: the same, the two environment names being compared without regard to
\* letter case.
C12_DevelopmentKeepsOwnerAndDevGroup ==
    OwnerAndDevGroupRule(lower(acl.environment) = lower(development_environment_name))

\* outside development, the owner and the dev group both held SELECT, neither
\* is desired, and both lost it
C12_Witness ==
    /\ Reconciled /\ acl.environment = "production" /\ acl.identities = {}
    /\ \A p \in OwnerAndDevGroup :
           /\ Grant(p, "SELECT", "view") \in acl.before
           /\ RevokeCall(p)
           /\ Grant(p, "SELECT", "view") \notin grants

\* the principals of current_permissions that are to lose SELECT
ToRevoke ==
    {p \in HeldBefore :
         /\ p \notin DesiredPrincipals
         /\ ~(lower(acl.environment) = lower(development_environment_name)
                  /\ p \in OwnerAndDevGroup)}

\* the revokes and the grants the platform refused
FailedRevokes == {p \in ToRevoke : [principal |-> p, privilege |-> "SELECT"] \in acl.faults.update}

FailedGrants == {p \in DesiredPrincipals : \E c \in acl.faults.update : c.principal = p}

\* the FAILED result names, as causes, the changes refused to these principals and no other
Lists(action, principals) ==
    /\ \A p \in principals :
           \E i \in 1..(Len(acl.result) - 7) :
               /\ acl.result[i] = "Error" /\ acl.result[i + 1] = action
               /\ acl.result[i + 6] = "for principal" /\ acl.result[i + 7] = p[1]
    /\ Cardinality({i \in 1..Len(acl.result) : acl.result[i] = "Error"})
           = Cardinality(principals)

\* every revoke is tried; if one failed the request fails listing them all
RevokesNotFailFast ==
    /\ \A p \in ToRevoke : RevokeCall(p)
    /\ FailedRevokes # {} => acl.status = "FAILED" /\ Lists("removing", FailedRevokes)

\* every grant is tried; if one failed the request fails listing them all
GrantsNotFailFast ==
    /\ \A p \in DesiredPrincipals : GrantCall(p)
    /\ FailedGrants # {} => acl.status = "FAILED" /\ Lists("adding", FailedGrants)

C13_WitnessGrants ==
    /\ Reconciled /\ FailedRevokes = {} /\ ToRevoke # {}
    /\ Cardinality(FailedGrants) = 2
    /\ Lists("adding", FailedGrants)

-----------------------------------------------------------------------------
(* Drift validation *)

\* the workflows that carried the requested name when the task began
Existing ==
    {id \in DOMAIN deploy.before :
         deploy.before[id].settings.name = deploy.specific.workflow.settings.name}

TheExisting == deploy.before[CHOOSE id \in Existing : TRUE]

\* the listing and the read of the existing workflow were answered
Answered == ~deploy.faults.list /\ ~deploy.faults.get

\* a definition without the fields the platform assigns
Normalized(job) ==
    [job EXCEPT !.created_time = Absent, !.creator_user_name = Absent,
                !.run_as_user_name = Absent, !.job_id = Absent]

EqualAfterNormalizing == Normalized(deploy.specific.workflow) = Normalized(TheExisting)

ExactlyOneExists == deploy.phase = "done" /\ Cardinality(Existing) = 1 /\ Answered

WritesIssued ==
    {i \in 1..Len(deploy.calls) : deploy.calls[i].api \in {"jobs.create", "jobs.reset"}}

\* C14: when exactly one workflow of the requested name exists and it equals
\* the request but for creation time, creator, run-as user and identifier, the
\* drift validation passes, whatever the override flag and the environment.
C14_IdenticalPasses ==
    (ExactlyOneExists /\ EqualAfterNormalizing) => deploy.validation.type = "return"

C14_Witness ==
    /\ ExactlyOneExists /\ EqualAfterNormalizing
    /\ deploy.specific.workflow # TheExisting
    /\ ~deploy.specific.override
    /\ deploy.environment = development_environment_name
    /\ deploy.validation.type = "return"

\* the request is the default empty skeleton of its name
RequestIsSkeleton ==
    deploy.specific.workflow.settings
        = Skeleton(deploy.specific.workflow.settings.name, TheExisting.settings.run_as, <<>>)

SkeletonOnNonEmpty ==
    ExactlyOneExists /\ RequestIsSkeleton /\ TheExisting.settings.tasks # <<>>

NotOverwritten == deploy.sent = <<>> /\ WritesIssued = {} /\ workflows = deploy.before

\* C15 as the specification states it: the skeleton against one non-empty
\* workflow of that name always fails the validation, and never overwrites it.
C15_AsStated ==
    SkeletonOnNonEmpty => (deploy.validation.type = "raise" /\ NotOverwritten)

\* C15: the skeleton against one non-empty workflow of that name fails the
\* validation in every environment, and never overwrites the workflow, when
\* the override flag is not set.
C15_SkeletonRefusedUnlessOverride ==
    (SkeletonOnNonEmpty /\ ~deploy.specific.override)
        => (deploy.validation.type = "raise" /\ NotOverwritten)

C15_Witness ==
    /\ SkeletonOnNonEmpty /\ ~deploy.specific.override
    /\ deploy.environment = "production"
    /\ deploy.validation.type = "raise"
    /\ Contains(message(deploy.validation.exc), "It is not permitted to replace a NON-empty workflow")
    /\ NotOverwritten

\* C16: one workflow of the requested name exists, it differs from the request,
\* the override flag is not set and the environment is the development one:
\* the validation fails asking for reverse provisioning, and the task issues
\* no jobs.create and no jobs.reset.
C16_DevelopmentDriftRefused ==
    (/\ ExactlyOneExists /\ ~EqualAfterNormalizing
     /\ ~deploy.specific.override
     /\ deploy.environment = development_environment_name)
        => /\ deploy.validation.type = "raise"
           /\ Contains(message(deploy.validation.exc),
                       "Kindly perform reverse provisioning and try again.")
           /\ deploy.outcome = deploy.validation
           /\ NotOverwritten

C16_Witness ==
    /\ ExactlyOneExists /\ ~EqualAfterNormalizing
    /\ ~deploy.specific.override
    /\ deploy.environment = development_environment_name
    /\ ~RequestIsSkeleton
    /\ Contains(message(deploy.validation.exc), "is different from that on Databricks.")
    /\ NotOverwritten

-----------------------------------------------------------------------------
(* Redeploy of a captured workflow *)

RequestTasks == deploy.specific.workflow.settings.tasks

Infos == deploy.specific.workflow_tasks_info

Covered(task) == \E i \in 1..Len(Infos) : Infos[i].task_key = task.task_key

InfoOf(task) == Infos[CHOOSE i \in 1..Len(Infos) : Infos[i].task_key = task.task_key]

\* the ids of the entities of the workspace that carry the name an entry refers to
MatchesOf(info) ==
    IF info.referenced_task_type = "pipeline"
    THEN {ToString(i) : i \in {j \in DOMAIN compute.pipelines :
                                   compute.pipelines[j] = info.referenced_task_name}}
    ELSE IF info.referenced_task_type = "job"
    THEN {ToString(i) : i \in {j \in DOMAIN deploy.before :
                                   deploy.before[j].settings.name = info.referenced_task_name}}
    ELSE IF info.referenced_task_type = "notebook_warehouse"
    THEN {"w" \o ToString(i) : i \in {j \in DOMAIN compute.warehouses :
                                          compute.warehouses[j] = info.referenced_cluster_name}}
    ELSE {"c" \o ToString(i) : i \in {j \in DOMAIN compute.clusters :
                                          compute.clusters[j] = info.referenced_cluster_name}}

\* the task with the reference of its kind set to this id
WithRef(task, info, id) ==
    IF info.referenced_task_type = "pipeline" THEN [task EXCEPT !.pipeline_id = id]
    ELSE IF info.referenced_task_type = "job" THEN [task EXCEPT !.job_id = id]
    ELSE IF info.referenced_task_type = "notebook_warehouse"
    THEN [task EXCEPT !.warehouse_id = id]
    ELSE [task EXCEPT !.existing_cluster_id = id]

\* C17: the workflow a redeploy hands to jobs.create or jobs.reset has the
\* tasks of the request in number and order; a task with a WorkflowTasksInfo
\* entry carries the id of an entity of that name in the workspace and is
\* otherwise as requested, a task without an entry is as requested.
C17_ReferencesReplaced ==
    (deploy.phase = "done" /\ deploy.sent # <<>>)
        => /\ Len(deploy.sent[1].tasks) = Len(RequestTasks)
           /\ \A i \in 1..Len(RequestTasks) :
                  IF Covered(RequestTasks[i])
                  THEN \E id \in MatchesOf(InfoOf(RequestTasks[i])) :
                           deploy.sent[1].tasks[i]
                               = WithRef(RequestTasks[i], InfoOf(RequestTasks[i]), id)
                  ELSE deploy.sent[1].tasks[i] = RequestTasks[i]

C17_Witness ==
    /\ deploy.phase = "done" /\ deploy.outcome.type = "return"
    /\ Len(RequestTasks) = 2
    /\ Covered(RequestTasks[1]) /\ ~Covered(RequestTasks[2])
    /\ deploy.sent[1].tasks[1] # RequestTasks[1]
    /\ deploy.sent[1].tasks[2] = RequestTasks[2]

\* C18: when the name of an entry of a task resolves to no entity or to more
\* than one entity of the workspace, the redeploy fails and issues no
\* jobs.create and no jobs.reset.
C18_UniqueOrFail ==
    (/\ deploy.phase = "done"
     /\ \E i \in 1..Len(RequestTasks) :
            /\ Covered(RequestTasks[i])
            /\ Cardinality(MatchesOf(InfoOf(RequestTasks[i]))) # 1)
        => /\ deploy.outcome.type = "raise"
           /\ WritesIssued = {}
           /\ workflows = deploy.before

\* the application ids of the service principals that carry the configured name
RunAsResolved ==
    {"app" \o ToString(i) : i \in {j \in DOMAIN compute.service_principals :
                                       compute.service_principals[j]
                                           = deploy.specific.runAsPrincipalName}}

\* C19: the run_as of every workflow handed to jobs.create or jobs.reset is the
\* application id resolved for the configured run-as principal, not the run_as
\* the captured definition carries.
C19_RunAsForced ==
    (deploy.phase = "done" /\ deploy.sent # <<>>)
        => /\ deploy.sent[1].run_as \in RunAsResolved
           /\ deploy.sent[1].run_as # deploy.specific.workflow.settings.run_as

-----------------------------------------------------------------------------
(* The workspace of a job given by URL *)

\* a reference of the form of the platform's workspace URLs
ExternalUrl(reference) ==
    \E scheme \in {<<>>, <<"https://">>}, id \in Digits, shard \in Digits,
       path \in {<<>>, <<"/jobs">>} :
        reference = scheme \o <<"adb-", id, ".", shard, ".azuredatabricks.net">> \o path

-----------------------------------------------------------------------------
(* Properties of the workflow unprovisioning *)

\* the last operation was the unprovisioning of a workflow whose task info
\* list is absent or empty
UnprovisionWithoutTasksInfo(r) ==
    /\ r.op = "unprovision" /\ r.cls = "Workflow"
    /\ r.tasks_info \in {NoTasksInfo, TasksInfo(<<>>)}

\* C26: unprovisioning a workflow whose WorkflowTaskInfo list is absent or empty
\* fails before any listing or deletion: no SDK call is made, no job is deleted
\* and the repository is not deleted.
C26_NoTasksInfoNothingDeleted ==
    [][UnprovisionWithoutTasksInfo(reply') =>
          /\ reply'.outcome.type = "raise"
          /\ calls' = <<>>
          /\ jobs' = jobs /\ repo' = repo]_vars

\* such an unprovisioning, with the data to be removed, in a workspace that
\* holds the repository and a job of the workflow's name
C26_Witness ==
    /\ reply.op = "unprovision" /\ reply.cls = "Workflow"
    /\ reply.tasks_info = TasksInfo(<<>>)
    /\ reply.remove_data /\ repo
    /\ NamedLike(jobs, reply.name) # {}

-----------------------------------------------------------------------------
(* Properties of update_acl's mapping step *)

\* the references update_acl maps: those of the request, the owner and the
\* dev group
MappedByUpdateAcl == acl.identities \cup {Owner, DevGroupRef}

\* C30: if an identity of the requested ACL, the owner or the dev group fails
\* to map, update_acl fails before any permission change: it issues no revoke
\* and no grant, and the grants stay as they were.
C30_UnmappedNoChange ==
    (acl.phase = "done" /\ acl.known /\ \E ref \in MappedByUpdateAcl : Unmappable(ref))
        => /\ acl.status = "FAILED"
           /\ acl.calls = <<>>
           /\ grants = acl.before

\* a request naming a group the account does not hold, while the owner and the
\* dev group resolve and a principal outside the request holds SELECT
C30_Witness ==
    /\ acl.phase = "done" /\ acl.known /\ acl.faults = NoFaults
    /\ Unmappable(OpsGroupRef) /\ OpsGroupRef \in acl.identities
    /\ ~Unmappable(Owner) /\ ~Unmappable(DevGroupRef)
    /\ Grant(<<"bob">>, "SELECT", "view") \in acl.before
    /\ acl.status = "FAILED"

-----------------------------------------------------------------------------
(* Executions of tasks *)

\* the calls of an execution that reach the workspace or a resource handler
PastTheGate(made) ==
    SelectSeq(made, LAMBDA c : c.api \notin {"get_workspace", "create_if_not_exists_workspace",
                                             "role_assignment",
                                             "get_principal_role_assignments_on_resource",
                                             "delete_role_assignment"})

\* the last execution ran on a task the repository holds and resolved a workspace
ResolvedWorkspace ==
    gate.phase = "done" /\ gate.known /\ gate.workspace_info # <<>>

\* C21: an execution, provision or unprovision, that resolves a workspace
\* whose provisioning state is not SUCCEEDED ends at once with the task
\* FAILED: it asks for no workspace client, runs no validation and no
\* handler, and leaves the workspace in the state it found it in
C21_ReadinessGate ==
    (ResolvedWorkspace /\ gate.workspace_info[1].provisioning_state # "SUCCEEDED")
        => /\ status_map[gate.task_id[2]].status = "FAILED"
           /\ status_map[gate.task_id[2]].result
                  = <<"The status of">> \o gate.workspace_info[1].name
                        \o <<"workspace is different from 'ACTIVE'.">>
           /\ gate.updates = <<"FAILED">>
           /\ PastTheGate(gate.calls) = <<>>
           /\ gate.after.workspaces = gate.workspaces

C21_Witness ==
    /\ ResolvedWorkspace
    /\ ~gate.is_provisioning
    /\ gate.component.cls = "OutputPort"
    /\ gate.faults = NoGateFaults
    /\ gate.workspace_info[1].provisioning_state = "UPDATING"
    /\ gate.before[gate.task_id[2]].status = "RUNNING"
    /\ status_map[gate.task_id[2]].status = "FAILED"

\* C23: an execution on a component whose kind is neither workload nor
\* outputport ends at once with the task FAILED and the kind named in its
\* result; no workspace is looked up or created, no workspace client is asked
\* for and no handler runs
C23_UnsupportedKindFails ==
    (gate.phase = "done" /\ gate.known /\ gate.component.kind \notin {"workload", "outputport"})
        => /\ status_map[gate.task_id[2]].status = "FAILED"
           /\ status_map[gate.task_id[2]].result
                  = <<"The kind">> \o <<gate.component.kind>>
                        \o <<"of the component is not supported by this Tech Adapter">>
           /\ gate.updates = <<"FAILED">>
           /\ gate.calls = <<>>
           /\ gate.workspace_info = <<>>
           /\ gate.after.workspaces = gate.workspaces
           /\ gate.raised = NoExc

C23_Witness ==
    /\ gate.phase = "done"
    /\ gate.known
    /\ gate.component.kind = "storage"
    /\ gate.is_provisioning
    /\ gate.permissions_configured
    /\ gate.workspaces = <<>>
    /\ gate.before[gate.task_id[2]].status = "RUNNING"
    /\ status_map[gate.task_id[2]].status = "FAILED"

\* the last execution was an unprovision, on a task the repository holds, of
\* a workload or an output port whose workspace is given by a name that Azure
\* has no workspace for
UnprovisionWorkspaceNotFound ==
    /\ gate.phase = "done"
    /\ gate.known
    /\ ~gate.is_provisioning
    /\ gate.component.cls \in {"JobWorkload", "WorkflowWorkload", "DLTWorkload", "OutputPort"}
    /\ DATABRICKS_URL_PATTERN_match(gate.component.workspace) = <<>>
    /\ gate.permissions_configured
    /\ ~gate.faults.lookup
    /\ gate.component.workspace \notin DOMAIN gate.workspaces

\* C29: an unprovision whose workspace is not found ends with the task
\* COMPLETED and a result that says the unprovision was skipped; after the
\* lookup it asks for no workspace client and runs no handler, so that
\* nothing is deleted, and Azure is left as it was
C29_UnprovisionSkipped ==
    UnprovisionWorkspaceNotFound
        => /\ status_map[gate.task_id[2]].status = "COMPLETED"
           /\ status_map[gate.task_id[2]].result
                  = <<"Unprovision skipped for component, Workspace">>
                        \o gate.component.workspace \o <<"not found">>
           /\ gate.updates = <<"COMPLETED">>
           /\ gate.calls = <<Call("get_workspace", gate.component.workspace)>>
           /\ gate.workspace_info = <<>>
           /\ gate.after.workspaces = gate.workspaces
           /\ gate.raised = NoExc

C29_Witness ==
    /\ UnprovisionWorkspaceNotFound
    /\ gate.component.cls = "WorkflowWorkload"
    /\ gate.faults = NoGateFaults
    /\ gate.before[gate.task_id[2]].status = "RUNNING"
    /\ status_map[gate.task_id[2]].status = "COMPLETED"
    /\ status_map[gate.task_id[2]].info = "None"

-----------------------------------------------------------------------------
(* Threads in the task repository *)

\* the threads that are executing a statement under `with self._status_map_lock`
InsideLock == {t \in Threads : threads.thread[t].pc \in Inside}

\* C28: create_task, get_task and update_task exclude one another: at most
\* one thread is inside the lock, and it is the holder.  Whenever no thread
\* is inside, the table is the one the calls would have left had they run one
\* after the other in the order they took the lock: every task a create_task
\* returned is stored, every update is on the task it named and none is
\* lost; and every get_task returned what that serial table held.
C28_TableUnderOneLock ==
    /\ Cardinality(InsideLock) <= 1
    /\ InsideLock \subseteq {threads.holder}
    /\ threads.created \subseteq DOMAIN status_map
    /\ InsideLock = {} => status_map = threads.serial
    /\ ~threads.torn

\* two threads have updated the same task, one after the other, next to a
\* thread that waits for the lock
C28_Witness ==
    /\ InsideLock = {}
    /\ threads.calls = MaxCalls
    /\ threads.created = {1}
    /\ status_map[1] = [status |-> "FAILED", result |-> <<"error">>, info |-> "jobUrl"]
    /\ \E t \in Threads : threads.thread[t].returned = "status"

-----------------------------------------------------------------------------
(* Concurrent provisions creating repositories *)

\* the provisions that are between setting the git credentials and creating
\* the repository in that workspace
CreatingRepository(workspace) ==
    {t \in Provisions : /\ creation.provision[t].pc \in RepositoryCreationStep
                        /\ creation.provision[t].workspace = workspace}

\* C22: no two provisions are at the same time between setting the git
\* credentials and creating the repository in the same workspace
C22_RepositoryCreationSerialized ==
    \A workspace \in RepoWorkspaces : Cardinality(CreatingRepository(workspace)) <= 1

-----------------------------------------------------------------------------
(* NO_PERMISSIONS *)

\* the role assignments of a principal made on the workspace itself
OnWorkspace(roles, principal) ==
    {ra \in roles : ra.principal = principal /\ ra.scope = "workspace"}

\* the last change of permissions went through, with that setting for the
\* principal written as NO_PERMISSIONS in some case
RevokedFrom(target, setting) ==
    /\ revoke.last.phase = "done"
    /\ revoke.last.target = target
    /\ revoke.last.outcome.type = "return"
    /\ revoke.last.config[setting] \in {"no_permissions", "NO_PERMISSIONS"}

\* on the workspace: every role the principal was assigned on it is deleted
\* by a call of its own and none is assigned
RolesRevoked(setting, principal) ==
    RevokedFrom("workspace", setting)
        => /\ OnWorkspace(azure.roles, principal) = {}
           /\ \A ra \in OnWorkspace(revoke.last.roles, principal) :
                  \E i \in 1..Len(revoke.last.calls) :
                      revoke.last.calls[i]
                          = Call("delete_role_assignment", <<<<"ws">>, principal, ra.role>>)
           /\ \A i \in 1..Len(revoke.last.calls) :
                  revoke.last.calls[i] # Call("role_assignment", <<<<"ws">>, principal>>)

\* on the repository: the principal is on the access control list no more;
\* a list that was sent holds it only as the list read before held it (the
\* other principal was assigned on top of the current list), at no new level
PermissionRevoked(setting, principal) ==
    RevokedFrom("repository", setting)
        => /\ principal \notin DOMAIN revoke.repo_acl
           /\ \A i \in 1..Len(revoke.last.calls) :
                  (/\ revoke.last.calls[i].api = "repos.set_permissions"
                   /\ principal \in DOMAIN revoke.last.calls[i].id)
                      => /\ principal \in DOMAIN revoke.last.acl
                         /\ revoke.last.calls[i].id[principal] = <<revoke.last.acl[principal][1]>>

\* C27: a role (a repository permission) configured as NO_PERMISSIONS makes
\* the adapter remove what the principal holds and grant nothing: after the
\* change every role assignment the principal had on the workspace is
\* deleted (the principal is off the repository's access control list), and
\* no assignment was requested for it
C27_NoPermissionsRevokes ==
    /\ RolesRevoked("owner", "owner")
    /\ RolesRevoked("developer", "dev_group")
    /\ PermissionRevoked("owner", OwnerUser)
    /\ PermissionRevoked("developer", DevelopersGroup)

\* the owner held two roles on the workspace and one inherited from the
\* resource group; the two are gone, the development group got its role
C27_Witness ==
    /\ RevokedFrom("workspace", "owner")
    /\ revoke.last.config.developer = "role"
    /\ Cardinality(OnWorkspace(revoke.last.roles, "owner")) = 2
    /\ \E ra \in azure.roles : ra.principal = "owner" /\ ra.scope = "resource_group"
    /\ OnWorkspace(azure.roles, "owner") = {}
    /\ OnWorkspace(azure.roles, "dev_group") # {}

\* the handler came as far as its call of map_principals
ReachedMapping ==
    /\ workload.phase = "done"
    /\ ~(/\ workload.component.cls = "DLTWorkload"
         /\ \/ workload.is_managed /\ ~workload.component.metastore
            \/ workload.faults.step = "catalog")

\* the owner or the dev group has no identity in what the mapper gives
MappingFails ==
    LET subjects == {workload.data_product.dataProductOwner,
                     prefixed(workload.data_product.devGroup)}
        mapped == DatabricksMapper_map(workload.groups, subjects, workload.faults.mapping)
    IN  \E ref \in subjects :
            mapped.results[ref].kind = "error" \/ mapped.results[ref].value = <<>>

\* the calls that DLTWorkloadHandler makes ahead of the mapping
AheadOfMapping == {"attach_metastore", "create_catalog_if_not_exists"}

\* C25: when the owner or the dev group of a workload does not resolve
\* through the mapper, or resolves to nothing, the provision of the workload
\* fails and the handler has made no call on the repository, on the job,
\* workflow or pipeline, or on their permissions.  The handlers of jobs and
\* workflows have made no call at all; the handler of pipelines has attached
\* the metastore of a managed workspace and ensured the catalog.
C25_MappingFailureStopsProvision ==
    (ReachedMapping /\ MappingFails)
        => /\ workload.outcome.type = "raise"
           /\ workload.outcome.exc.cls = "ProvisioningError"
           /\ \A i \in 1..Len(workload.calls) : workload.calls[i].api \in AheadOfMapping
           /\ workload.component.cls # "DLTWorkload" => workload.calls = <<>>

\* the account holds two groups named as the dev group: the provision of a job
\* whose owner resolves has failed on the mapping
C25_Witness ==
    /\ ReachedMapping
    /\ MappingFails
    /\ workload.component.cls = "JobWorkload"
    /\ workload.data_product.dataProductOwner = Owner
    /\ Len(workload.groups) = 2
    /\ workload.faults.mapping = {}
    /\ workload.outcome.type = "raise"

\* the calls of create_repository_with_permissions, in their order
RepositoryStep == repository_calls \o repository_permission_calls

\* the repository step of the last provision went through before call i
RepositoryDoneBefore(i) ==
    \E k \in 0..(i - 1 - Len(RepositoryStep)) :
        SubSeq(workload.calls, k + 1, k + Len(RepositoryStep)) = RepositoryStep

\* C35: in the provision of a workload, the job, workflow or pipeline is
\* created or updated only after the principals were mapped and every call of
\* the repository step went through, and the permissions of a job or workflow
\* are updated only after its create-or-update returned, on the id it
\* returned.
C35_StepsInOrder ==
    workload.phase = "done"
        => \A i \in 1..Len(workload.calls) :
               /\ workload.calls[i].api \in ResourceCalls
                      => /\ ~MappingFails
                         /\ RepositoryDoneBefore(i)
                         /\ ~workload.is_managed
                         /\ workload.faults.step # "repository"
               /\ workload.calls[i].api = "update_job_permissions"
                      => /\ \E j \in 1..(i - 1) : workload.calls[j].api \in ResourceCalls
                         /\ workload.faults.step # "resource"
                         /\ workload.calls[i].id = "id"

\* a job was provisioned to the end: repository, job, permissions
C35_Witness ==
    /\ workload.phase = "done"
    /\ workload.component.cls = "JobWorkload"
    /\ workload.outcome = Return(<<"id">>)
    /\ workload.calls = RepositoryStep
                            \o <<Call("create_or_update_job", "job"),
                                 Call("update_job_permissions", "id")>>

SpecProvision == Init /\ [][NextProvision]_vars

\* what UpdateAclService.update_acl returned
EntryAnswer == boundary.outcome.value[1]

\* the workspace of the output port is a name that Azure does not hold
EntryWorkspaceMissing ==
    /\ boundary.component.cls = "OutputPort"
    /\ boundary.component.workspace_op \notin DOMAIN boundary.workspaces
    /\ DATABRICKS_URL_PATTERN_match(boundary.component.workspace_op) = <<>>
    /\ boundary.configured
    /\ ~boundary.faults.lookup

\* C31: UpdateAclService.update_acl returns and never raises.  For a component
\* that is not an output port it returns a validation error and has called
\* neither the workspace resolver nor the handler; for a workspace that does
\* not exist it returns FAILED; when the handler raised it returns FAILED with
\* the message built from the chain of the exception; and it returns
\* COMPLETED exactly when the handler was called and returned.
C31_UpdateAclNeverRaises ==
    boundary.phase = "done"
        => /\ boundary.outcome.type = "return"
           /\ boundary.component.cls # "OutputPort"
                  => /\ EntryAnswer.type = "RequestValidationError"
                     /\ boundary.resolver_calls = <<>>
                     /\ ~boundary.client_asked
                     /\ ~boundary.handler.called
           /\ boundary.component.cls = "OutputPort"
                  => EntryAnswer.type = "ProvisioningStatus"
           /\ EntryWorkspaceMissing
                  => EntryAnswer.status = "FAILED" /\ ~boundary.handler.called
           /\ (boundary.handler.called /\ boundary.handler.outcome.type = "raise")
                  => /\ EntryAnswer.status = "FAILED"
                     /\ EntryAnswer.result
                            = build_error_message_from_chained_exception(
                                  boundary.handler.outcome.exc.chain)
           /\ EntryAnswer.status = "COMPLETED"
                  <=> (boundary.handler.called /\ boundary.handler.outcome.type = "return")

\* the handler raised on the listing of the grants and the answer is FAILED
C31_Witness ==
    /\ boundary.phase = "done"
    /\ boundary.handler.called
    /\ boundary.handler.outcome.type = "raise"
    /\ boundary.faults.handler.retrieve
    /\ boundary.outcome.type = "return"
    /\ EntryAnswer.status = "FAILED"

\* C36: a provision of an output port whose workspace is managed and in state
\* SUCCEEDED, no call of which fails, reaches the handler of output ports and
\* ends with the task COMPLETED.
C36_ManagedOutputPortCompletes ==
    (/\ ResolvedWorkspace
     /\ gate.is_provisioning
     /\ gate.component.cls = "OutputPort"
     /\ gate.workspace_info[1].is_managed
     /\ gate.workspace_info[1].provisioning_state = "SUCCEEDED"
     /\ gate.faults = NoGateFaults)
        => /\ status_map[gate.task_id[2]].status = "COMPLETED"
           /\ \E i \in 1..Len(gate.calls) :
                  gate.calls[i].api = "output_port_handler.provision_output_port"

\* C37: update_acl revokes only from principals that held a privilege on the
\* view and are neither in the desired set nor kept as owner or dev group of
\* the development environment; a desired principal that held SELECT is the
\* subject of no revoke and holds SELECT at the end.
C37_DesiredNeverRevoked ==
    Reconciled
        => /\ \A i \in 1..Len(acl.calls) :
                  ~acl.calls[i].add => acl.calls[i].principal \in ToRevoke
           /\ \A p \in DesiredPrincipals :
                  Grant(p, "SELECT", "view") \in acl.before
                      => /\ ~RevokeCall(p)
                         /\ Grant(p, "SELECT", "view") \in grants

\* the owner is desired and held SELECT, another principal held it too and
\* lost it while the owner kept it
C37_Witness ==
    /\ Reconciled
    /\ acl.environment = "production"
    /\ <<"ann">> \in DesiredPrincipals
    /\ Grant(<<"ann">>, "SELECT", "view") \in acl.before
    /\ Grant(<<"bob">>, "SELECT", "view") \in acl.before
    /\ RevokeCall(<<"bob">>)
    /\ ~RevokeCall(<<"ann">>)
    /\ Grant(<<"ann">>, "SELECT", "view") \in grants

\* the thread that is assigning to the stored status of task id
Writing(t, id) ==
    /\ threads.holder = t
    /\ threads.thread[t].pc \in {"status", "result", "info"}
    /\ threads.thread[t].uuid = id

\* C38: concurrent tasks are isolated in the task table: a step changes the
\* record of a task only when it is an assignment of update_task for that
\* very task, so a status write for task A leaves the status, result and info
\* of every other task B as they were; every task ever created stays in the
\* table, and a newly inserted id is one that was never issued before.
C38_TaskTableIsolation ==
    [][/\ \A b \in DOMAIN status_map :
              /\ b \in DOMAIN status_map'
              /\ status_map'[b] # status_map[b] => \E t \in Threads : Writing(t, b)
       /\ threads.created \subseteq DOMAIN status_map
       /\ \A b \in DOMAIN status_map' \ DOMAIN status_map : b \notin threads.created]_vars

\* two tasks are stored, the first has been written to a terminal status by
\* an update_task that is about to return, the second is still as created
C38_Witness ==
    /\ DOMAIN status_map = {1, 2}
    /\ \E t \in Threads : threads.holder = t /\ threads.thread[t].pc = "store"
                            /\ threads.thread[t].uuid = 1
    /\ status_map[1] = [status |-> "FAILED", result |-> <<"error">>, info |-> "None"]
    /\ status_map[2] = [status |-> "RUNNING", result |-> EmptyStr, info |-> "None"]

SpecEntry == Init /\ [][NextEntry]_vars

\* the resources of the class of a provision that the workspace holds
ResourcesOf(cls) == IF cls = "Pipeline" THEN pipelines ELSE jobs

\* the calls of a provision that create a resource
Creates(t) ==
    {i \in 1..Len(race.tasks[t].calls) :
         race.tasks[t].calls[i].api \in {"jobs.create", "pipelines.create"}}

\* two provisions of the same component
SameComponent(t1, t2) ==
    /\ t1 # t2
    /\ race.tasks[t1].pc = "done" /\ race.tasks[t2].pc = "done"
    /\ race.tasks[t1].cls = race.tasks[t2].cls
    /\ race.tasks[t1].name = race.tasks[t2].name

\* the provision found no resource of the name and every call it made went through
ListedNone(t) ==
    /\ race.tasks[t].existing = <<>>
    /\ race.tasks[t].outcome.type = "return"

\* C32: two provisions of the same component that ran at the same time, each
\* having found no resource of the name and no call of theirs having failed,
\* issue at most one create call between them and leave at most one resource
\* of that name.
C32_AtMostOneCreate ==
    \A t1, t2 \in Provisions :
        (/\ SameComponent(t1, t2)
         /\ t1 \notin race.tasks[t2].after /\ t2 \notin race.tasks[t1].after
         /\ ListedNone(t1) /\ ListedNone(t2)
         /\ ~race.outside)
            => /\ Cardinality(Creates(t1)) + Cardinality(Creates(t2)) <= 1
               /\ Cardinality(NamedLike(ResourcesOf(race.tasks[t1].cls),
                                        race.tasks[t1].name)) <= 1

\* C33: when a provision of a component returned, and a second provision of
\* the same component began after it and returned as well, nobody else having
\* changed the workspace, the workspace holds exactly one resource of that
\* name and the second provision returned the identifier the first returned.
C33_RepeatedProvisionSameId ==
    \A t1, t2 \in Provisions :
        (/\ SameComponent(t1, t2)
         /\ t1 \in race.tasks[t2].after
         /\ race.tasks[t1].outcome.type = "return"
         /\ race.tasks[t2].outcome.type = "return"
         /\ \A u \in Provisions \ {t1, t2} : race.tasks[u].pc = "none"
         /\ ~race.outside)
            => /\ Cardinality(NamedLike(ResourcesOf(race.tasks[t1].cls),
                                        race.tasks[t1].name)) = 1
               /\ race.tasks[t2].outcome.value = race.tasks[t1].outcome.value

\* the first provision created the workflow, the second one reset it
C33_Witness ==
    \E t1, t2 \in Provisions :
        /\ SameComponent(t1, t2)
        /\ t1 \in race.tasks[t2].after
        /\ race.tasks[t1].cls = "Workflow"
        /\ race.tasks[t1].outcome.type = "return"
        /\ race.tasks[t2].outcome.type = "return"
        /\ Creates(t1) # {}
        /\ race.tasks[t2].calls[2].api = "jobs.reset"
        /\ ~race.outside

SpecRace == Init /\ [][NextRace]_vars

SpecSecret == Init /\ [][NextSecret]_vars

\* the call has returned or raised after generate_secret_for_service_principal
\* gave it a secret
ReturnedWithSecret == secrets.run.pc = "returned" /\ secrets.run.secret_id # <<>>

\* C39: the temporary secret generated for the run-as principal is deleted
\* before set_service_principal_git_credentials returns, on the success path
\* and on every failure path after the secret was generated.
C39_SecretAlwaysDeleted == ReturnedWithSecret => secrets.run.secret_id[1] \notin secrets.live

\* C39, amended: once the secret was generated, the method calls
\* delete_service_principal_secret for it exactly once before it returns,
\* whether the body raised or not; the secret is gone from the account when
\* that call succeeded, and when that call failed the secret stays and the
\* method raises ProvisioningError.
C39_SecretDeletionAlwaysAttempted ==
    ReturnedWithSecret
        => /\ Len(secrets.run.deletes) = 1
           /\ secrets.run.deletes[1].secret_id = secrets.run.secret_id[1]
           /\ secrets.run.deletes[1].outcome = "return"
                  => secrets.run.secret_id[1] \notin secrets.live
           /\ secrets.run.deletes[1].outcome = "raise"
                  => /\ secrets.run.secret_id[1] \in secrets.live
                     /\ secrets.run.outcome.type = "raise"
                     /\ secrets.run.outcome.exc.cls = "ProvisioningError"

\* the body raised after the secret was generated, the clean-up deleted the
\* secret and the method raised
C39_Witness ==
    /\ ReturnedWithSecret
    /\ secrets.run.raised
    /\ secrets.run.deletes = <<[secret_id |-> secrets.run.secret_id[1], outcome |-> "return"]>>
    /\ secrets.run.secret_id[1] \notin secrets.live
    /\ secrets.run.outcome.type = "raise"

SpecBetween == Init /\ [][NextBetween]_vars

\* the calls of the handler that write a workflow
WorkflowWrites ==
    {i \in 1..Len(checked.handled.calls) :
         checked.handled.calls[i].api \in {"jobs.create", "jobs.reset"}}

\* the validation of the task ended by raising
ValidationRaised == checked.phase = "done" /\ checked.validation.outcome.type = "raise"

\* no repository creation and no workflow create or reset unless the
\* validation of the task has passed: the handler, which makes them, is not
\* entered
NothingUnlessValidated == ValidationRaised => ~checked.entered /\ WorkflowWrites = {}

\* C34: in a workflow provision no repository creation and no workflow
\* create or reset is performed unless the drift validation of that task has
\* passed, and the workflow that is written is the one the validation
\* compared against: the workflows of that name are the same at the update as
\* they were at the validation, a reset goes to the one compared and a create
\* is made only when the validation found none.
C34_UpdatesTheValidatedWorkflow ==
    /\ NothingUnlessValidated
    /\ checked.phase = "done" /\ checked.entered /\ WorkflowWrites # {}
           => /\ Matching(names_of(checked.at_update),
                           checked.specific.workflow.settings.name) = checked.compared
              /\ \A i \in WorkflowWrites :
                     IF checked.handled.calls[i].api = "jobs.reset"
                     THEN checked.compared = <<checked.handled.calls[i].id>>
                     ELSE checked.compared = <<>>

====
